---------------------------- MODULE Spec2Model ----------------------------
(***************************************************************************)
(* Dosing control core of the bioreactor fleet.                            *)
(*                                                                         *)
(*   Spec     the dosing controller: io_controlling's tick loop, the five  *)
(*            ControlAlgorithm subclasses, execute_io_action and the       *)
(*            passive listener that serves set_attr                        *)
(*            (src/morbidostat/background_jobs/io_controlling.py).         *)
(*   SpecJob  one BackgroundJob process: construction, the lifecycle       *)
(*            entry actions, signals, writes to state/set and the broker's *)
(*            retained $state (src/pioreactor/background_jobs/base.py).    *)
(*   SpecStart  start-ups of several processes of one job_name on a unit.  *)
(*   SpecSet  the editable settings of a job (LogAggregation): local      *)
(*            assignments and set messages.                                *)
(*   SpecSub  one call of subscribe_and_callback and the messages the     *)
(*            sub client then dispatches.                                  *)
(*   SpecFleet  one invocation of the leader's pios command line           *)
(*            (src/pioreactor/cli/pios.py).                                *)
(*   SpecPump  one call of the pump driver add_media                       *)
(*            (src/pioreactor/actions/add_media.py).                       *)
(*                                                                         *)
(* Volumes, optical densities and PID outputs are exact rationals          *)
(* <<numerator, denominator>> in lowest terms.                             *)
(***************************************************************************)
EXTENDS Integers, Sequences, FiniteSets, TLC

(***************************************************************************)
(* Bounds of the model.                                                    *)
(***************************************************************************)
\* ticks the periodic driver starts in one run
MaxTicks == 2
\* set_attr messages the passive listener serves in one run
MaxSets == 1
\* the PID output takes the values k / PidSteps, k in 0 .. PidSteps
PidSteps == 2
\* SIGTERM / SIGINT deliveries to one job process
MaxSignals == 2
\* messages on state/set one job process serves
MaxWrites == 2
\* processes started with one job_name on one unit
NumProcs == 2
MaxStarts == 2
\* drops of a client's connection to the broker, per job process
MaxDrops == 2
\* messages the broker delivers after a subscribe_and_callback
MaxMessages == 2
\* levels of a topic or of a subscription pattern
MaxLevels == 2
\* set messages a job serves
MaxSetMessages == 2
\* leading $ of the attribute segment of a set topic
MaxDollars == 2
\* characters of a payload
MaxPayload == 2
\* calls of run or execute, on the main thread and on the listener thread together
MaxRuns == 2
\* messages the listener's job_callback receives
MaxCallbacks == 2

(***************************************************************************)
(* Rational arithmetic.                                                    *)
(***************************************************************************)
RECURSIVE GCD(_, _)
GCD(a, b) == IF b = 0 THEN a ELSE GCD(b, a % b)

Abs(n) == IF n < 0 THEN 0 - n ELSE n

R(n, d) == LET g == GCD(Abs(n), d) IN <<n \div g, d \div g>>

RAdd(x, y) == R(x[1] * y[2] + y[1] * x[2], x[2] * y[2])
RSub(x, y) == R(x[1] * y[2] - y[1] * x[2], x[2] * y[2])
RMul(x, y) == R(x[1] * y[1], x[2] * y[2])
RAbs(x) == <<Abs(x[1]), x[2]>>
RLess(x, y) == x[1] * y[2] < y[1] * x[2]
RLeq(x, y) == x[1] * y[2] <= y[1] * x[2]
Zero == R(0, 1)
One == R(1, 1)

\* Python's None, and a present value
None == <<>>
Some(v) == <<v>>
Val(o) == o[1]

(***************************************************************************)
(* Program constants and the inputs the runs draw from.                    *)
(***************************************************************************)
VIAL_VOLUME == 14

Modes == {"silent", "morbidostat", "turbidostat", "pid_turbidostat", "pid_morbidostat"}
\* values of --mode: the keys of `algorithms` and a name that is none
ModeOptions == Modes \cup {"chemostat"}

\* --volume: 0.4 mL and 1.0 mL (below and above the 0.5 mL splitting threshold)
Volumes == {R(2, 5), R(1, 1)}
\* --target_od
TargetOD == R(2, 5)
\* target_od payloads of a set_attr message: 0.75 * 0.6 = 0.45
NewTargetODs == {R(3, 5)}
\* od_filtered payloads: 0.3 = 0.75 * target, 0.4 = target, 0.45 between 1.1 and
\* 1.2 * target, 0.5 > 1.2 * target
ODs == {R(3, 10), R(2, 5), R(9, 20), R(1, 2)}
\* growth_rate payloads
GrowthRates == {R(1, 10)}
\* --target_growth_rate (1/hr) and --duration (min): volume 0.5 mL per tick
TargetGrowthRate == R(1, 28)
Duration == 60
\* outputs a PID with output_limits=(0, 1) can return
PIDOutputs == {R(k, PidSteps) : k \in 0 .. PidSteps}
\* arguments of a direct call of execute_io_action
DirectVolumes == {Zero, R(1, 2), One}

VARIABLES
    mode,                \* key into io_controlling's `algorithms`
    target_od,           \* self.target_od
    volume,              \* self.volume (None when the algorithm sets none)
    max_volume,          \* PIDTurbidostat's self.max_volume
    od_to_start_diluting, \* the PID algorithms' self.od_to_start_diluting
    max_od,              \* PIDMorbidostat's self.max_od
    setpoint,            \* PIDTurbidostat's self.pid.setpoint
    active,              \* the attribute `active`, None until a set_attr creates it
    latest_od, latest_growth_rate, previous_od, previous_rate,
    od_feed, gr_feed,    \* last payload on od_filtered/135 and growth_rate
    pc,                  \* where the main thread is
    origin,              \* who calls: "tick", io_controlling's driver; "direct", a
                         \* caller that invokes execute_io_action itself
    paused,              \* active was 0 when the current tick's run was invoked
    arg,                 \* first argument already evaluated for the pending call
    stack,               \* execute_io_action invocations still to run, innermost first
    pumps,               \* pump-driver calls of the current request, in order
    request,             \* arguments of the current top-level execute_io_action call
    executed,            \* execute was called in the current tick
    event,               \* event the current tick returns
    io_batched,          \* io_batched records published for the current request
    error_log,           \* messages published to error_log
    log_triggered,       \* "triggered <event>" log messages of the current tick
    pid,                 \* the PID's _last_input and _last_output, None before an update
    pid_log,             \* pid_log messages published
    event_ml,            \* media_ml and alt_media_ml the current tick's event carries
    ticks, sets

\* one BackgroundJob process (SpecJob)
VARIABLES
    state,               \* self.state
    retained,            \* retained payload of the job's $state topic at the broker
    will,                \* last-will the broker holds for the pub client's connection
    pub,                 \* pub client connection: "none", "up", "down" (lost, the
                         \* client reconnects), "closed", "dropped"
    sub,                 \* sub client: "none", "up", "down", "stopped"
    mpc,                 \* where the main thread is
    hooks,               \* the signal handlers and the atexit hook are installed
    mainD,               \* disconnected() activations on the main thread, innermost first
    busD,                \* step of the disconnected() the bus thread runs, or None
    shutdown,            \* SIGTERM / SIGINT was delivered in ready or sleeping
    on_disconnects,      \* calls of on_disconnect
    signals, writes, written, reinits,
    queued,              \* publish the pub client holds while its connection is down
    drops,               \* connection drops so far
    declared,            \* $properties and $settable: what the job published last and
                         \* what the broker retains of it
    listening            \* subscriptions of the current sub client that have a callback

\* processes of one job_name on one unit (SpecStart)
VARIABLES
    instances,           \* per process: where it is, and what it published on $state
    state_topic          \* retained payload of the shared $state topic

\* one call of subscribe_and_callback (SpecSub)
VARIABLES
    subscriptions,       \* the argument `subscriptions`, a list of patterns
    todo,                \* patterns the loop has still to register
    sac,                 \* where the call is: "off", "loop", "returned"
    callbacks,           \* patterns message_callback_add holds the callback for
    subscribed,          \* patterns the sub client subscribed to at the broker
    calls,               \* invocations of the callback for the last message
    messages,            \* messages delivered so far
    cb_logged,           \* exceptions of the callback the wrapper logged
    escapes,             \* exceptions that left the wrapper for the client's thread
    sub_thread           \* the sub client's network thread: "off", "running", "ended"

\* the attributes of a job and its set messages (SpecSet)
VARIABLES
    attrs,               \* attribute name -> value, Unset while the attribute is missing
    attr_topic,          \* editable setting -> retained payload of its topic
    main_set,            \* <<name, value>> the main thread's __setattr__ is about to publish
    bus_set,             \* the same for the sub client's thread
    escaped,             \* exception that left the last set_attr_from_message, or None
    hook_calls,          \* calls of a set_<attr> hook
    served,              \* <<attr, payload>> of the last set message, or None
    updated_logs,        \* "Updated ..." lines logged
    assigns, set_msgs

\* one invocation of pios (SpecFleet)
VARIABLES
    leader,              \* am_I_leader()
    inventory,           \* get_active_workers_in_inventory()
    subcommand,          \* the sub-command invoked
    units,               \* --units: "$broadcast" or the units named
    skip_confirm,        \* -y was given
    confirm,             \* the answer to the confirmation prompt
    fpc,                 \* where the invocation is
    dispatched           \* units a task of the fan-out has acted on

\* one call of add_media (SpecPump)
VARIABLES
    pump_ml, pump_duration,     \* the arguments ml and duration, None when not given
    duty_cycle,
    calibrated,          \* config has media_ml_calibration for the unit
    ppc,                 \* where the call is
    pump_error,          \* the exception the call raised, or None
    dosing_events,       \* messages published to dosing_events
    pwm,                 \* the pump's PWM: "off", "on", "stopped"
    cleanups             \* calls of clean_up_gpio

\* the two threads of one io_controlling process (SpecBus)
VARIABLES
    where,               \* per thread: where its call of run / execute is
    via,                 \* per thread: the method the thread entered by
    owner,               \* per thread: its execute_io_action request, 0 when none
    remaining,           \* per thread: the pump drivers its request has yet to call
    driver_calls,        \* <<request, pump driver>> in the order the drivers ran
    runs,                \* calls of run or execute so far
    handled,             \* bus messages handed to job_callback so far
    not_found            \* "No function ... found." log messages

io_vars == <<mode, target_od, volume, max_volume, od_to_start_diluting, max_od, setpoint,
          active, latest_od, latest_growth_rate,
          previous_od, previous_rate, od_feed, gr_feed, pc, origin, paused, arg, stack, pumps,
          request, executed, event, io_batched, error_log, log_triggered, ticks, sets, pid,
          pid_log, event_ml>>

job_vars == <<state, retained, will, pub, sub, mpc, hooks, mainD, busD, shutdown,
              on_disconnects, signals, writes, written, reinits, queued, drops, declared,
              listening>>

start_vars == <<instances, state_topic>>

sub_vars == <<subscriptions, todo, sac, callbacks, subscribed, calls, messages,
              cb_logged, escapes, sub_thread>>

fleet_vars == <<leader, inventory, subcommand, units, skip_confirm, confirm, fpc,
                dispatched>>

pump_vars == <<pump_ml, pump_duration, duty_cycle, calibrated, ppc, pump_error,
               dosing_events, pwm,
               cleanups>>

set_vars == <<attrs, attr_topic, main_set, bus_set, escaped, hook_calls, served,
              updated_logs, assigns, set_msgs>>

bus_vars == <<where, via, owner, remaining, driver_calls, runs, handled, not_found>>

vars == <<io_vars, job_vars, start_vars, sub_vars, set_vars, fleet_vars, pump_vars, bus_vars>>

\* what the actions of a specification leave alone
not_io == <<job_vars, start_vars, sub_vars, set_vars, fleet_vars, pump_vars, bus_vars>>
not_init == <<io_vars, start_vars, sub_vars, set_vars, fleet_vars, pump_vars, bus_vars>>
\* declared changes in init() only, listening where listeners are started
not_job == <<not_init, declared, listening>>
not_start == <<io_vars, job_vars, sub_vars, set_vars, fleet_vars, pump_vars, bus_vars>>
not_sub == <<io_vars, job_vars, start_vars, set_vars, fleet_vars, pump_vars, bus_vars>>
not_set == <<io_vars, job_vars, start_vars, sub_vars, fleet_vars, pump_vars, bus_vars>>
not_fleet == <<io_vars, job_vars, start_vars, sub_vars, set_vars, pump_vars, bus_vars>>
not_pump == <<io_vars, job_vars, start_vars, sub_vars, set_vars, fleet_vars, bus_vars>>
not_bus == <<io_vars, job_vars, start_vars, sub_vars, set_vars, fleet_vars, pump_vars>>

\* the parts a specification does not run
NoJob ==
    /\ state = "disconnected" /\ retained = None /\ will = None
    /\ pub = "none" /\ sub = "none" /\ mpc = "off" /\ hooks = FALSE
    /\ mainD = <<>> /\ busD = None /\ shutdown = FALSE
    /\ on_disconnects = 0 /\ signals = 0 /\ writes = 0 /\ written = None /\ reinits = 0
    /\ queued = None /\ drops = 0
    /\ declared = [properties |-> <<>>, settable |-> {}, kept_properties |-> <<>>,
                   kept_settable |-> {}]
    /\ listening = {}

NoStart == instances = <<>> /\ state_topic = None

NoSub ==
    /\ subscriptions = <<>> /\ todo = <<>> /\ sac = "off"
    /\ callbacks = {} /\ subscribed = {} /\ calls = 0 /\ messages = 0
    /\ cb_logged = 0 /\ escapes = 0 /\ sub_thread = "off"

NoSet ==
    /\ attrs = <<>> /\ attr_topic = <<>> /\ main_set = None /\ bus_set = None
    /\ escaped = None /\ hook_calls = 0 /\ served = None /\ updated_logs = 0
    /\ assigns = 0 /\ set_msgs = 0

NoFleet ==
    /\ leader = FALSE /\ inventory = {} /\ subcommand = "none" /\ units = {}
    /\ skip_confirm = FALSE /\ confirm = "n" /\ fpc = "off" /\ dispatched = {}

NoPump ==
    /\ pump_ml = None /\ pump_duration = None /\ duty_cycle = 0 /\ calibrated = FALSE
    /\ ppc = "off" /\ pump_error = None /\ dosing_events = 0 /\ pwm = "off" /\ cleanups = 0

\* the parts the first five specifications do not run
\* both threads idle: the algorithm is constructed and the first tick not yet due
Threads == {"main", "listener"}

NoBus ==
    /\ where = [t \in Threads |-> "idle"] /\ via = [t \in Threads |-> "none"]
    /\ owner = [t \in Threads |-> 0] /\ remaining = [t \in Threads |-> <<>>]
    /\ driver_calls = <<>> /\ runs = 0 /\ handled = 0 /\ not_found = 0

NoOther == NoFleet /\ NoPump /\ NoBus


(***************************************************************************)
(* Construction: io_controlling builds the algorithm of the mode.   *)
(***************************************************************************)
\* PIDMorbidostat.__init__: target_growth_rate * VIAL_VOLUME * (duration / 60)
PIDMorbidostatVolume ==
    RMul(RMul(TargetGrowthRate, R(VIAL_VOLUME, 1)), R(Duration, 60))

Init ==
    /\ NoJob /\ NoStart /\ NoSub /\ NoSet /\ NoOther
    /\ origin \in {"tick", "direct"}
    /\ mode \in IF origin = "tick" THEN ModeOptions ELSE {"silent"}
    \* --target_od defaults to None; left out here only for the PID modes
    /\ target_od \in IF mode \in {"pid_turbidostat", "pid_morbidostat"}
                     THEN {TargetOD, None} ELSE {TargetOD}
    /\ volume \in CASE mode \in {"turbidostat", "morbidostat"} -> {Some(v) : v \in Volumes}
                    [] mode = "pid_morbidostat" -> {Some(PIDMorbidostatVolume)}
                    [] OTHER -> {None}
    /\ max_volume \in IF mode = "pid_turbidostat" THEN {Some(v) : v \in Volumes} ELSE {None}
    /\ active = None
    /\ od_to_start_diluting = None /\ max_od = None /\ setpoint = None
    /\ latest_od = None /\ latest_growth_rate = None
    /\ previous_od = None /\ previous_rate = None
    /\ od_feed = None /\ gr_feed = None
    /\ pc = (IF origin = "tick" THEN "start" ELSE "sleep") /\ paused = FALSE
    /\ arg = None /\ stack = <<>> /\ pumps = <<>> /\ request = None
    /\ executed = FALSE /\ event = "none"
    /\ io_batched = 0 /\ error_log = 0 /\ log_triggered = 0
    /\ ticks = 0 /\ sets = 0
    /\ pid = None /\ pid_log = 0 /\ event_ml = None

derived == <<od_to_start_diluting, max_od, setpoint>>
settings == <<mode, origin, target_od, volume, max_volume, active, derived>>
sensors == <<latest_od, latest_growth_rate, previous_od, previous_rate>>
feeds == <<od_feed, gr_feed>>
pid_vars == <<pid, pid_log>>
telemetry == <<pid, pid_log, event_ml>>
history == <<paused, pumps, request, executed, event, io_batched, log_triggered>>

(***************************************************************************)
(* io_controlling: the mode is resolved and the algorithm constructed.     *)
(***************************************************************************)
\* assert mode in algorithms.keys(), ahead of the try block: a failure leaves the
\* generator without passing the except clause
ResolveMode ==
    /\ pc = "start"
    /\ pc' = IF mode \in Modes THEN "construct" ELSE "dead"
    /\ UNCHANGED <<not_io, telemetry, settings, sensors, feeds, arg, stack, history,
                   error_log, ticks, sets>>

\* algorithms[mode](**kwargs), inside the try block: the PID algorithms compute
\* 0.75 * target_od, a TypeError when target_od is None, and keep the result;
\* PIDTurbidostat hands target_od to its PID as the setpoint
Construct ==
    /\ pc = "construct"
    /\ pc' = IF target_od = None THEN "raise" ELSE "sleep"
    /\ IF target_od # None /\ mode \in {"pid_turbidostat", "pid_morbidostat"}
       THEN /\ od_to_start_diluting' = Some(RMul(R(3, 4), target_od))
            /\ max_od' = IF mode = "pid_morbidostat"
                         THEN Some(RMul(R(6, 5), target_od)) ELSE None
            /\ setpoint' = IF mode = "pid_turbidostat" THEN Some(target_od) ELSE None
       ELSE UNCHANGED derived
    /\ UNCHANGED <<not_io, telemetry, mode, origin, target_od, volume, max_volume, active, sensors, feeds, arg, stack, history,
                   error_log, ticks, sets>>

(***************************************************************************)
(* The broker side: sensor jobs publish, a client publishes to set_attr.   *)
(***************************************************************************)
PublishOD ==
    /\ pc # "dead"
    /\ \E v \in ODs : od_feed' = Some(v)
    /\ UNCHANGED <<not_io, telemetry, settings, sensors, gr_feed, pc, arg, stack, history,
                   error_log, ticks, sets>>

PublishGrowthRate ==
    /\ pc # "dead"
    /\ \E v \in GrowthRates : gr_feed' = Some(v)
    /\ UNCHANGED <<not_io, telemetry, settings, sensors, od_feed, pc, arg, stack, history,
                   error_log, ticks, sets>>

\* set_attr: setattr(self, k, v) for each item of the payload, on the listener thread
set_attr(k, v) ==
    /\ pc \notin {"start", "construct", "dead"}
    /\ sets < MaxSets
    /\ sets' = sets + 1
    /\ CASE k = "volume" -> volume' = Some(v) /\ UNCHANGED <<active, target_od>>
         [] k = "active" -> active' = Some(v) /\ UNCHANGED <<volume, target_od>>
         [] k = "target_od" -> target_od' = v /\ UNCHANGED <<volume, active>>
    /\ UNCHANGED <<not_io, telemetry, mode, origin, max_volume, derived, sensors, feeds, pc, arg, stack,
                   history, error_log, ticks>>

SetVolume == \E v \in Volumes : set_attr("volume", v)
SetActive == \E v \in {0, 1} : set_attr("active", v)
SetTargetOD == \E v \in NewTargetODs : set_attr("target_od", v)

(***************************************************************************)
(* ControlAlgorithm.run and set_OD_measurements.                           *)
(***************************************************************************)
\* every(...) calls run; set_OD_measurements shifts latest to previous
run ==
    /\ pc = "sleep" /\ origin = "tick"
    /\ ticks < MaxTicks
    /\ paused' = (active = Some(0))
    /\ previous_rate' = latest_growth_rate
    /\ previous_od' = latest_od
    /\ pc' = "read_gr"
    /\ pumps' = <<>> /\ request' = None /\ executed' = FALSE /\ event' = "none"
    /\ io_batched' = 0 /\ log_triggered' = 0 /\ event_ml' = None
    /\ UNCHANGED <<not_io, pid_vars, settings, latest_od, latest_growth_rate, feeds, arg, stack,
                   error_log, ticks, sets>>

\* subscribe(".../growth_rate") blocks until a payload is there
ReadGrowthRate ==
    /\ pc = "read_gr"
    /\ gr_feed # None
    /\ latest_growth_rate' = gr_feed
    /\ pc' = "read_od"
    /\ UNCHANGED <<not_io, telemetry, settings, latest_od, previous_od, previous_rate, feeds, arg,
                   stack, history, error_log, ticks, sets>>

\* ReadOD if the read returned without a payload
ReadODNoWait ==
    /\ pc = "read_od"
    /\ latest_od' = od_feed
    /\ pc' = "execute"
    /\ UNCHANGED <<not_io, telemetry, settings, latest_growth_rate, previous_od, previous_rate, feeds,
                   arg, stack, history, error_log, ticks, sets>>

\* subscribe(".../od_filtered/135") blocks until a payload is there
ReadOD ==
    /\ pc = "read_od"
    /\ od_feed # None
    /\ latest_od' = od_feed
    /\ pc' = "execute"
    /\ UNCHANGED <<not_io, telemetry, settings, latest_growth_rate, previous_od, previous_rate, feeds,
                   arg, stack, history, error_log, ticks, sets>>

(***************************************************************************)
(* execute, per algorithm.                                                 *)
(***************************************************************************)
Frame(alt, media, waste, top) ==
    [alt |-> alt, media |-> media, waste |-> waste, at |-> "enter", top |-> top]

\* the call of execute_io_action with its arguments evaluated
Invoke(alt, media, waste) ==
    /\ stack' = <<Frame(alt, media, waste, TRUE)>>
    /\ request' = Some(<<alt, media, waste>>)
    /\ pc' = "io"

\* execute returns ev without a pump action
Return(ev) ==
    /\ event' = ev
    /\ pc' = "log"
    /\ UNCHANGED <<stack, request>>

SilentExecute ==
    /\ pc = "execute" /\ mode = "silent"
    /\ executed' = TRUE
    /\ Return("NoEvent")
    /\ UNCHANGED <<not_io, telemetry, settings, sensors, feeds, arg, paused, pumps, io_batched, error_log,
                   log_triggered, ticks, sets>>

\* the test, and the evaluation of the first argument, self.volume
TurbidostatExecute ==
    /\ pc = "execute" /\ mode = "turbidostat"
    /\ executed' = TRUE
    /\ IF RLeq(target_od, Val(latest_od))
       THEN /\ arg' = Some(<<"media_ml", Val(volume)>>)
            /\ event' = "DilutionEvent"
            /\ pc' = "call"
            /\ UNCHANGED <<stack, request>>
       ELSE Return("NoEvent") /\ UNCHANGED arg
    /\ UNCHANGED <<not_io, telemetry, settings, sensors, feeds, paused, pumps, io_batched, error_log,
                   log_triggered, ticks, sets>>

\* MorbidostatExecute with the test for a first reading inverted
MorbidostatExecuteNoSkip ==
    /\ pc = "execute" /\ mode = "morbidostat"
    /\ executed' = TRUE
    /\ IF previous_od # None
       THEN Return("NoEvent") /\ UNCHANGED arg
       ELSE /\ arg' = Some(<<"media_ml", Val(volume)>>) /\ event' = "DilutionEvent"
            /\ pc' = "call"
            /\ UNCHANGED <<stack, request>>
    /\ UNCHANGED <<not_io, telemetry, settings, sensors, feeds, paused, pumps, io_batched, error_log,
                   log_triggered, ticks, sets>>

MorbidostatExecute ==
    /\ pc = "execute" /\ mode = "morbidostat"
    /\ executed' = TRUE
    /\ IF previous_od = None
       THEN Return("NoEvent") /\ UNCHANGED arg
       ELSE /\ IF RLeq(target_od, Val(latest_od)) /\ RLeq(Val(previous_od), Val(latest_od))
               THEN arg' = Some(<<"alt_media_ml", Val(volume)>>) /\ event' = "AltMediaEvent"
               ELSE arg' = Some(<<"media_ml", Val(volume)>>) /\ event' = "DilutionEvent"
            /\ pc' = "call"
            /\ UNCHANGED <<stack, request>>
    /\ UNCHANGED <<not_io, telemetry, settings, sensors, feeds, paused, pumps, io_batched, error_log,
                   log_triggered, ticks, sets>>

\* the evaluation of waste_ml=self.volume, and the call
CallWithVolume ==
    /\ pc = "call"
    /\ IF Val(arg)[1] = "alt_media_ml"
       THEN Invoke(Val(arg)[2], Zero, Val(volume))
       ELSE Invoke(Zero, Val(arg)[2], Val(volume))
    /\ arg' = None
    /\ UNCHANGED <<not_io, telemetry, settings, sensors, feeds, paused, pumps, executed, event, io_batched,
                   error_log, log_triggered, ticks, sets>>

\* PID.update: simple_pid computes the output, within output_limits, and
\* records the input and the output; publish_pid_stats publishes them
update(input_, output) ==
    /\ pid' = Some(<<input_, output>>)
    /\ pid_log' = pid_log + 1

PIDTurbidostatExecute ==
    /\ pc = "execute" /\ mode = "pid_turbidostat"
    /\ executed' = TRUE
    /\ IF RLeq(Val(latest_od), Val(od_to_start_diluting))
       THEN Return("NoEvent") /\ UNCHANGED pid_vars
       ELSE \E output \in PIDOutputs :
              LET volume_to_cycle == RMul(RSub(One, output), Val(max_volume)) IN
              /\ update(Val(latest_od), output)
              /\ IF volume_to_cycle = Zero
                 THEN Return("NoEvent")
                 ELSE /\ Invoke(Zero, volume_to_cycle, volume_to_cycle)
                      /\ event' = "DilutionEvent"
    /\ UNCHANGED <<not_io, settings, sensors, feeds, arg, paused, pumps, io_batched, error_log,
                   log_triggered, ticks, sets, event_ml>>

\* PIDMorbidostatExecute dosing the whole volume as media as well
PIDMorbidostatExecuteAllMedia ==
    /\ pc = "execute" /\ mode = "pid_morbidostat"
    /\ executed' = TRUE
    /\ IF RLeq(Val(latest_od), Val(od_to_start_diluting))
       THEN Return("NoEvent") /\ UNCHANGED telemetry
       ELSE \E fraction_of_alt_media_to_add \in PIDOutputs :
              LET vol == IF RLess(Val(max_od), Val(latest_od))
                         THEN RMul(R(2, 1), Val(volume))
                         ELSE Val(volume)
                  alt_media_ml == RMul(fraction_of_alt_media_to_add, vol)
                  media_ml == vol
              IN /\ update(Val(latest_growth_rate), fraction_of_alt_media_to_add)
                 /\ Invoke(alt_media_ml, media_ml, vol)
                 /\ event' = "AltMediaEvent"
                 /\ event_ml' = Some(<<media_ml, alt_media_ml>>)
    /\ UNCHANGED <<not_io, settings, sensors, feeds, arg, paused, pumps, io_batched, error_log,
                   log_triggered, ticks, sets>>

PIDMorbidostatExecute ==
    /\ pc = "execute" /\ mode = "pid_morbidostat"
    /\ executed' = TRUE
    /\ IF RLeq(Val(latest_od), Val(od_to_start_diluting))
       THEN Return("NoEvent") /\ UNCHANGED telemetry
       ELSE \E fraction_of_alt_media_to_add \in PIDOutputs :
              LET vol == IF RLess(Val(max_od), Val(latest_od))
                         THEN RMul(R(2, 1), Val(volume))
                         ELSE Val(volume)
                  alt_media_ml == RMul(fraction_of_alt_media_to_add, vol)
                  media_ml == RMul(RSub(One, fraction_of_alt_media_to_add), vol)
              IN /\ update(Val(latest_growth_rate), fraction_of_alt_media_to_add)
                 /\ Invoke(alt_media_ml, media_ml, vol)
                 /\ event' = "AltMediaEvent"
                 /\ event_ml' = Some(<<media_ml, alt_media_ml>>)
    /\ UNCHANGED <<not_io, settings, sensors, feeds, arg, paused, pumps, io_batched, error_log,
                   log_triggered, ticks, sets>>

\* the generator every(delay, task): it sleeps and calls the task again after a
\* call that returned, and lets an exception of the task pass to its consumer
every(raised) == IF raised THEN "raise" ELSE "sleep"

\* publish "[io_controlling]: triggered <event>." and return to every(...)
PublishTriggered ==
    /\ pc = "log"
    /\ log_triggered' = log_triggered + 1
    /\ ticks' = ticks + 1
    /\ pc' = every(FALSE)
    /\ UNCHANGED <<not_io, telemetry, settings, sensors, feeds, arg, stack, paused, pumps, request, executed,
                   event, io_batched, error_log, sets>>

(***************************************************************************)
(* execute_io_action.                                                      *)
(***************************************************************************)
\* abs(alt_media_ml + media_ml - waste_ml) < 1e-5
Conserved(alt, media, waste) ==
    RLess(RAbs(RSub(RAdd(alt, media), waste)), R(1, 100000))

\* MustSplit if the test were waste_ml >= 0.5
MustSplitGeq(f) == RLeq(R(1, 2), f.waste)

\* MustSplit if the test were waste_ml > 1.0
MustSplitAboveOne(f) == RLess(One, f.waste)

\* waste_ml > 0.5
MustSplit(f) == RLess(R(1, 2), f.waste)

Half(x) == RMul(x, R(1, 2))

\* the recursive call's arguments
Halved(f) == Frame(Half(f.alt), Half(f.media), Half(f.waste), FALSE)

\* LegAt with the waste removed ahead of the media
LegAtWasteBeforeMedia(f, i) ==
    IF i <= 1 /\ RLess(Zero, f.alt) THEN "alt"
    ELSE IF i <= 2 /\ RLess(Zero, f.waste) THEN "waste"
    ELSE IF i <= 3 /\ RLess(Zero, f.media) THEN "media"
    ELSE "done"

\* the next pump call of a terminal leg at or after position i (1 alt, 2 media, 3 waste)
LegAt(f, i) ==
    IF i <= 1 /\ RLess(Zero, f.alt) THEN "alt"
    ELSE IF i <= 2 /\ RLess(Zero, f.media) THEN "media"
    ELSE IF i <= 3 /\ RLess(Zero, f.waste) THEN "waste"
    ELSE "done"

\* the stack once the innermost invocation is at position i of its leg
Proceed(i) ==
    LET f == Head(stack)
        at == LegAt(f, i)
    IN IF at = "done" THEN Tail(stack) ELSE <<[f EXCEPT !.at = at]>> \o Tail(stack)

\* After if run published its log message as soon as the first leg had returned
AfterFirstLeg(st) == IF origin = "tick" THEN "log" ELSE IF st # <<>> THEN "io" ELSE "returned"

\* where the main thread goes once the stack is st
After(st) == IF st # <<>> THEN "io" ELSE IF origin = "tick" THEN "log" ELSE "returned"

\* EnterIoAction without the assertion
EnterIoActionNoAssert ==
    /\ pc = "io" /\ stack # <<>> /\ Head(stack).at = "enter"
    /\ LET f == Head(stack) IN
       IF MustSplit(f)
       THEN stack' = <<Halved(f), Halved(f)>> \o Tail(stack) /\ pc' = "io"
       ELSE stack' = Proceed(1) /\ pc' = After(Proceed(1))
    /\ UNCHANGED <<not_io, telemetry, settings, sensors, feeds, arg, history, error_log, ticks, sets>>

\* entry of an invocation: the assertion, then the split or the start of the leg
EnterIoAction ==
    /\ pc = "io" /\ stack # <<>> /\ Head(stack).at = "enter"
    /\ LET f == Head(stack) IN
       IF ~Conserved(f.alt, f.media, f.waste)
       THEN stack' = <<>> /\ pc' = every(TRUE)
       ELSE IF MustSplit(f)
       THEN stack' = <<Halved(f), Halved(f)>> \o Tail(stack) /\ pc' = "io"
       ELSE stack' = Proceed(1) /\ pc' = After(Proceed(1))
    /\ UNCHANGED <<not_io, telemetry, settings, sensors, feeds, arg, history, error_log, ticks, sets>>

PumpCall(at, i, driver, ml) ==
    /\ pc = "io" /\ stack # <<>> /\ Head(stack).at = at
    /\ pumps' = Append(pumps, <<driver, ml>>)
    /\ stack' = Proceed(i)
    /\ pc' = After(Proceed(i))
    /\ UNCHANGED <<not_io, telemetry, settings, sensors, feeds, arg, paused, request, executed, event,
                   io_batched, log_triggered, error_log, ticks, sets>>

add_alt_media == PumpCall("alt", 2, "add_alt_media", Head(stack).alt)
add_media == PumpCall("media", 3, "add_media", Head(stack).media)
remove_waste == PumpCall("waste", 4, "remove_waste", Head(stack).waste)

\* a caller other than an algorithm calls execute_io_action(alt, media, waste)
DirectCall ==
    /\ pc = "sleep" /\ origin = "direct"
    /\ \E alt \in DirectVolumes, media \in DirectVolumes, waste \in DirectVolumes :
          Invoke(alt, media, waste)
    /\ UNCHANGED <<not_io, telemetry, settings, sensors, feeds, arg, paused, pumps, executed, event,
                   io_batched, log_triggered, error_log, ticks, sets>>

(***************************************************************************)
(* io_controlling: the driver's except clause.                             *)
(***************************************************************************)
\* publish to error_log (and log), raise e; a direct caller gets the exception itself
DriverFails ==
    /\ pc = "raise"
    /\ error_log' = IF origin = "tick" THEN error_log + 1 ELSE error_log
    /\ pc' = "dead"
    /\ UNCHANGED <<not_io, telemetry, settings, sensors, feeds, arg, stack, history, ticks, sets>>

Next ==
    \/ ResolveMode \/ Construct
    \/ PublishOD \/ PublishGrowthRate \/ SetVolume \/ SetActive \/ SetTargetOD
    \/ run \/ ReadGrowthRate \/ ReadOD
    \/ SilentExecute \/ TurbidostatExecute \/ MorbidostatExecute \/ CallWithVolume
    \/ PIDTurbidostatExecute \/ PIDMorbidostatExecute \/ PublishTriggered
    \/ EnterIoAction \/ add_alt_media \/ add_media \/ remove_waste
    \/ DirectCall \/ DriverFails

Spec == Init /\ [][Next]_vars


(***************************************************************************)
(* Properties of the dosing controller.                                    *)
(***************************************************************************)
\* the invocation at the top of the stack is at its first statement
Entering == pc = "io" /\ stack # <<>> /\ Head(stack).at = "enter"

\* the main thread takes a step of execute_io_action
IoStep == stack' # stack \/ pumps' # pumps

\* the current request is over: it returned or it raised
RequestOver == request # None /\ stack = <<>> /\ pc # "io"

RequestConserved == Conserved(Val(request)[1], Val(request)[2], Val(request)[3])

\* C1: every invocation of execute_io_action an algorithm issues, and every
\* recursive invocation it spawns, has |alt_media_ml + media_ml - waste_ml| < 1e-5.
C1_Conservation ==
    origin = "tick" =>
        \A i \in 1 .. Len(stack) :
            Conserved(stack[i].alt, stack[i].media, stack[i].waste)

C3_PausedTickIsNoEvent ==
    (origin = "tick" /\ paused) =>
        (~executed /\ pumps = <<>> /\ event \in {"none", "NoEvent"})

\* x is half of y
IsHalf(x, y) == x[1] * 2 * y[2] = y[1] * x[2]

\* what a step of an invocation at its first statement does: above 0.5 mL no pump
\* call and two recursive invocations with halved volumes, else no recursive one
SplitRule(f) ==
    IF f.waste[1] * 2 > f.waste[2]
    THEN /\ pumps' = pumps
         /\ Len(stack') = Len(stack) + 1
         /\ SubSeq(stack', 3, Len(stack')) = Tail(stack)
         /\ \A i \in {1, 2} :
               /\ stack'[i].at = "enter" /\ ~stack'[i].top
               /\ IsHalf(stack'[i].alt, f.alt)
               /\ IsHalf(stack'[i].media, f.media)
               /\ IsHalf(stack'[i].waste, f.waste)
    ELSE \/ stack' = Tail(stack)
         \/ Tail(stack') = Tail(stack) /\ Head(stack').at # "enter"

\* the request req, once over, has made exactly the pump calls legs
RunsAs(req, legs) == (RequestOver /\ Val(request) = req) => pumps = legs

\* C7 as amended: an invocation that satisfies conservation splits into exactly
\* two halved invocations, without a pump call, when waste_ml > 0.5, and makes no
\* recursive invocation when waste_ml <= 0.5; (0, 1.0, 1.0) runs as two legs of
\* (0, 0.5, 0.5).
C7_SplitsAboveHalfMl ==
    /\ [][(Entering /\ IoStep /\ Conserved(Head(stack).alt, Head(stack).media,
                                            Head(stack).waste))
            => SplitRule(Head(stack))]_vars
    /\ [](RunsAs(<<Zero, One, One>>,
                 << <<"add_media", R(1, 2)>>, <<"remove_waste", R(1, 2)>>,
                    <<"add_media", R(1, 2)>>, <<"remove_waste", R(1, 2)>> >>))

\* the request (0, 1.0, 1.0) is over, after two legs
C7_Witness ==
    /\ RequestOver /\ Val(request) = <<Zero, One, One>>
    /\ Len(pumps) = 4

\* C7 as stated: every invocation with waste_ml > 0.5 splits in two, and the
\* request (0, 0, 1.0) runs as two terminal legs of (0, 0, 0.5).
C7_Original ==
    /\ [][(Entering /\ IoStep) => SplitRule(Head(stack))]_vars
    /\ [](RunsAs(<<Zero, Zero, One>>,
                 << <<"remove_waste", R(1, 2)>>, <<"remove_waste", R(1, 2)>> >>))

\* C8: a request that has reached a pump driver has published exactly one
\* io_batched record.
C8_OneBatchedRecord == pumps # <<>> => io_batched = 1

\* C9: an invocation that violates conservation raises before any pump call; the
\* driver publishes the error to error_log once and re-raises; no tick follows.
C9_AssertionStopsTheJob ==
    /\ []((request # None /\ ~RequestConserved) =>
              (pumps = <<>> /\ pc \in {"io", "raise", "dead"}))
    /\ [][(Entering /\ IoStep /\ ~RequestConserved) => pc' = "raise"]_vars
    /\ [][(pc = "raise" /\ pc' # pc) =>
              (pc' = "dead" /\ (origin = "tick" => error_log' = error_log + 1))]_vars
    /\ []((pc = "dead" /\ origin = "tick" /\ request # None) => error_log = 1)
    /\ [][pc = "dead" => (pc' = "dead" /\ ticks' = ticks /\ pumps' = pumps)]_vars

\* a tick's request violated conservation and the driver has logged and re-raised
C9_Witness ==
    /\ origin = "tick" /\ pc = "dead" /\ error_log = 1
    /\ request # None /\ ~RequestConserved /\ pumps = <<>>


\* execute has returned or raised in the current tick
ExecuteOver == executed /\ pc \in {"log", "sleep", "raise", "dead"}

\* C19: a Turbidostat tick whose latest_od is at least target_od has called
\* execute_io_action once, with no alt media and the volume as media and as
\* waste, and returns a DilutionEvent; any other Turbidostat tick returns
\* NoEvent and has made no pump call.
C19_TurbidostatTick ==
    (mode = "turbidostat" /\ ExecuteOver) =>
        IF RLeq(target_od, Val(latest_od))
        THEN /\ \E v \in Volumes : request = Some(<<Zero, v, v>>)
             /\ event = "DilutionEvent"
             /\ pc \in {"log", "sleep"}
        ELSE /\ event = "NoEvent"
             /\ request = None /\ pumps = <<>>
             /\ pc \in {"log", "sleep"}

\* C21: a Morbidostat tick with a previous OD reading has called
\* execute_io_action once: with the volume as alt media and as waste, returning
\* an AltMediaEvent, when latest_od is at least target_od and at least
\* previous_od; with the volume as media and as waste, returning a
\* DilutionEvent, otherwise.
C21_MorbidostatTick ==
    (mode = "morbidostat" /\ ExecuteOver /\ previous_od # None) =>
        /\ pc \in {"log", "sleep"}
        /\ IF RLeq(target_od, Val(latest_od)) /\ RLeq(Val(previous_od), Val(latest_od))
           THEN /\ \E v \in Volumes : request = Some(<<v, Zero, v>>)
                /\ event = "AltMediaEvent"
           ELSE /\ \E v \in Volumes : request = Some(<<Zero, v, v>>)
                /\ event = "DilutionEvent"

\* latest_od <= 0.75 * target_od
LowOD == latest_od # None /\ RLeq(Val(latest_od), RMul(R(3, 4), target_od))

\* C22: from execute to the end of a PIDTurbidostat tick whose latest_od is at
\* most 0.75 * target_od no step updates the PID or publishes a pid_log, none
\* calls execute_io_action or a pump driver, and execute returns NoEvent.
C22_LowODLeavesPIDAlone ==
    [][(mode = "pid_turbidostat" /\ pc \in {"execute", "log"} /\ LowOD)
          => /\ pid' = pid /\ pid_log' = pid_log
             /\ request' = None /\ stack' = <<>> /\ pumps' = <<>>
             /\ executed' => (event' = "NoEvent" /\ pc' \in {"log", "sleep"})]_vars

C24_DoublesAbove110Percent ==
    (mode = "pid_morbidostat" /\ request # None /\ sets = 0) =>
        Val(request)[3] =
            IF RLess(RMul(R(11, 10), target_od), Val(latest_od))
            THEN RMul(R(2, 1), PIDMorbidostatVolume)
            ELSE PIDMorbidostatVolume

\* C25: a controller that has ended with an error - in resolving the mode, in
\* constructing the algorithm or in a tick - has published it to error_log once.
C25_ErrorsAreLoggedOnce == (origin = "tick" /\ pc = "dead") => error_log = 1

\* C20: a Morbidostat tick with no previous OD reading returns NoEvent and has
\* made no call of execute_io_action or of a pump driver.
C20_FirstMorbidostatTickIsNoEvent ==
    (mode = "morbidostat" /\ executed /\ previous_od = None) =>
        /\ event = "NoEvent"
        /\ request = None /\ pumps = <<>> /\ stack = <<>>
        /\ pc \in {"log", "sleep"}

\* the first Morbidostat tick is over, its one OD reading above the target
C20_Witness ==
    /\ mode = "morbidostat" /\ executed /\ previous_od = None
    /\ RLess(target_od, Val(latest_od))
    /\ pc = "sleep" /\ ticks = 1 /\ log_triggered = 1 /\ error_log = 0

(***************************************************************************)
(* BackgroundJob: one process.                                             *)
(***************************************************************************)
LIFECYCLE_STATES == {"init", "ready", "disconnected", "sleeping", "lost"}

\* payloads written to state/set
StateWrites == LIFECYCLE_STATES \cup {"bogus"}

\* the dosing controller and the start-ups are not part of this specification
NoIo ==
    /\ mode = "silent" /\ origin = "direct" /\ target_od = TargetOD
    /\ volume = None /\ max_volume = None /\ active = None
    /\ od_to_start_diluting = None /\ max_od = None /\ setpoint = None
    /\ latest_od = None /\ latest_growth_rate = None
    /\ previous_od = None /\ previous_rate = None
    /\ od_feed = None /\ gr_feed = None
    /\ pc = "sleep" /\ paused = FALSE
    /\ arg = None /\ stack = <<>> /\ pumps = <<>> /\ request = None
    /\ executed = FALSE /\ event = "none"
    /\ io_batched = 0 /\ error_log = 0 /\ log_triggered = 0
    /\ ticks = 0 /\ sets = 0
    /\ pid = None /\ pid_log = 0 /\ event_ml = None

\* the process has been started and __init__ is about to run
JobInit ==
    /\ NoIo /\ NoStart /\ NoSub /\ NoSet /\ NoOther
    /\ state = "disconnected" /\ retained = None /\ will = None
    /\ pub = "none" /\ sub = "none" /\ mpc = "new" /\ hooks = FALSE
    /\ mainD = <<>> /\ busD = None /\ shutdown = FALSE
    /\ on_disconnects = 0 /\ signals = 0 /\ writes = 0 /\ written = None /\ reinits = 0
    /\ queued = None /\ drops = 0
    /\ declared = [properties |-> <<>>, settable |-> {}, kept_properties |-> <<>>,
                   kept_settable |-> {}]
    /\ listening = {}

counters == <<signals, writes, written, reinits, drops>>

\* LogAggregation.editable_settings, with the "state" __init__ appends
editable_settings == {"log_display_count", "state"}

\* pub_client.publish(topic, payload, qos, retain): what the broker holds for the
\* topic afterwards, the payload if the message was to be retained
Kept(retain, payload, held) == IF retain THEN payload ELSE held

\* declare_settable_properties_to_broker: self.publish(.../$properties,
\* ",".join(self.editable_settings), qos=AT_LEAST_ONCE) and, for each setting,
\* self.publish(.../<setting>/$settable, True, qos=AT_LEAST_ONCE); retain is not
\* passed and defaults to False
declare_settable_properties_to_broker ==
    declared' = [properties |-> Some(editable_settings),
                 settable |-> editable_settings,
                 kept_properties |->
                     Kept(FALSE, Some(editable_settings), declared.kept_properties),
                 kept_settable |->
                     Kept(FALSE, editable_settings, declared.kept_settable)]

Alive ==
    mpc \in {"new", "check", "init", "ready", "publish_ready", "protocol", "idle",
             "exiting"}

\* publish_attr("state"): a retained publish reaches the broker while the pub
\* client is connected
\* client is connected; while the connection is down the client holds it (QoS 2)
\* and sends it when it has reconnected
publish_attr(payload) ==
    /\ retained' = IF pub = "up" THEN Some(payload) ELSE retained
    /\ queued' = IF pub = "down" THEN Some(payload) ELSE queued

\* create_pub_client without a last_will
create_pub_client_no_will == pub' = "up" /\ will' = None

\* create_pub_client: the connection carries the retained last-will `lost`
create_pub_client == pub' = "up" /\ will' = Some("lost")

create_sub_client == sub' = "up"

\* start_general_passive_listeners: set_attr_from_message for the unit's and
\* the $broadcast set topics
General == {"unit/+/set", "$broadcast/+/set"}

\* what a subclass's start_passive_listeners subscribes to (LogAggregation:
\* on_message for the log topics)
Passive == {"passive"}

\* init(): the listeners it starts, on a sub client it has just created or on
\* the one __init__ created: start_general_passive_listeners only
InitListeners == General

\* the process ends: the broker publishes the will of a connection that was not
\* closed by a DISCONNECT
ProcessEnds(how) ==
    /\ mpc' = how
    /\ mainD' = <<>> /\ busD' = None
    /\ sub' = IF sub \in {"up", "down"} THEN "stopped" ELSE sub
    /\ queued' = None
    /\ IF pub = "up"
       THEN /\ pub' = "dropped"
            /\ retained' = IF will # None THEN will ELSE retained
            /\ will' = None
       ELSE /\ pub' = IF pub = "down" THEN "dropped" ELSE pub
            /\ UNCHANGED <<retained, will>>

\* __init__: the two clients
CreateClients ==
    /\ mpc = "new"
    /\ create_pub_client /\ create_sub_client
    /\ mpc' = "check"
    /\ UNCHANGED <<not_job, state, retained, queued, hooks, mainD, busD, shutdown,
                   on_disconnects, counters>>

\* __init__: check_for_duplicate_process, no other process of the job_name running
CheckPasses ==
    /\ mpc = "check"
    /\ mpc' = "init"
    /\ UNCHANGED <<not_job, state, retained, queued, will, pub, sub, hooks, mainD,
                   busD, shutdown, on_disconnects, counters>>

\* __init__: set_state(INIT) on the main thread; init() subscribes to state/set
ConstructInit ==
    /\ mpc = "init"
    /\ state' = "init" /\ publish_attr("init")
    /\ declare_settable_properties_to_broker
    /\ listening' = listening \cup InitListeners
    /\ mpc' = "ready"
    /\ UNCHANGED <<not_init, will, pub, sub, hooks, mainD, busD, shutdown,
                   on_disconnects, counters>>

\* ConstructReady if ready() assigned SLEEPING
ConstructReadySleeping ==
    /\ mpc = "ready"
    /\ state' = "sleeping"
    /\ mpc' = "publish_ready"
    /\ UNCHANGED <<not_job, retained, queued, will, pub, sub, hooks, mainD, busD, shutdown,
                   on_disconnects, counters>>

\* __init__: set_state(READY); ready() assigns self.state and __setattr__ has
\* read the value it is about to publish
ConstructReady ==
    /\ mpc = "ready"
    /\ state' = "ready"
    /\ mpc' = "publish_ready"
    /\ UNCHANGED <<not_job, retained, queued, will, pub, sub, hooks, mainD, busD, shutdown,
                   on_disconnects, counters>>

\* __setattr__ of ready(): publish_attr hands the value to the pub client
ConstructPublishReady ==
    /\ mpc = "publish_ready"
    /\ publish_attr("ready")
    /\ mpc' = "protocol"
    /\ UNCHANGED <<not_job, state, will, pub, sub, hooks, mainD, busD, shutdown,
                   on_disconnects, counters>>

\* __init__: set_up_disconnect_protocol, on the main thread; the subclass's
\* __init__ then calls start_passive_listeners
set_up_disconnect_protocol ==
    /\ mpc = "protocol"
    /\ hooks' = TRUE
    /\ listening' = listening \cup Passive
    /\ mpc' = "idle"
    /\ UNCHANGED <<not_init, declared, state, retained, queued, will, pub, sub, mainD, busD,
                   shutdown, on_disconnects, counters>>

\* an activation of an entry action: the statement it is at; from the loop over
\* self.pubsub_clients on, the generation of clients the loop runs over; in
\* __setattr__, the value publish_attr has read and is about to publish
Activation(at, gen) == [at |-> at, gen |-> gen, val |-> "none"]

Publishing(v) == [at |-> "publish", gen |-> 0, val |-> v]

\* SIGTERM or SIGINT is delivered: disconnect_gracefully on the main thread once
\* the handlers are installed, the default action (the process ends) before
Signal ==
    /\ mpc \in {"new", "check", "init", "ready", "publish_ready", "protocol", "idle"}
    /\ signals < MaxSignals
    /\ signals' = signals + 1
    /\ shutdown' = (shutdown \/ state \in {"ready", "sleeping"})
    /\ \E sig \in {"SIGTERM", "SIGINT"} :
          IF hooks
          THEN /\ mainD' = IF state = "disconnected" THEN mainD
                           ELSE <<Activation("on_disconnect", 0)>> \o mainD
               /\ UNCHANGED <<retained, queued, will, pub, sub, mpc, busD>>
          ELSE ProcessEnds("killed")
    /\ UNCHANGED <<not_job, state, hooks, on_disconnects, writes, written, reinits, drops>>

\* kill -9 or power loss
Crash ==
    /\ Alive /\ mpc # "new"
    /\ ProcessEnds("crashed")
    /\ UNCHANGED <<not_job, state, hooks, shutdown, on_disconnects, counters>>

\* thread t ("main" or "bus") is at statement `at` of disconnected()
At(t, at) ==
    /\ Alive
    /\ IF t = "main" THEN mainD # <<>> /\ Head(mainD).at = at
       ELSE busD # None /\ Val(busD).at = at

Gen(t) == IF t = "main" THEN Head(mainD).gen ELSE Val(busD).gen

Goto(t, at, gen) ==
    IF t = "main"
    THEN mainD' = <<Activation(at, gen)>> \o Tail(mainD) /\ UNCHANGED busD
    ELSE busD' = Some(Activation(at, gen)) /\ UNCHANGED mainD

\* OnDisconnect without the try: an exception of on_disconnect leaves disconnected()
OnDisconnectPropagates(t) ==
    /\ At(t, "on_disconnect")
    /\ on_disconnects' = on_disconnects + 1
    /\ \E raises \in BOOLEAN :
          IF raises
          THEN IF t = "main" THEN mainD' = Tail(mainD) /\ UNCHANGED busD
                             ELSE busD' = None /\ UNCHANGED mainD
          ELSE Goto(t, "state", 0)
    /\ UNCHANGED <<not_job, state, retained, queued, will, pub, sub, mpc, hooks,
                   shutdown, counters>>

\* disconnected(): try: self.on_disconnect(), which returns or raises; except
\* Exception: the error is logged and disconnected() goes on
OnDisconnect(t) ==
    /\ At(t, "on_disconnect")
    /\ on_disconnects' = on_disconnects + 1
    /\ \E raises \in BOOLEAN : Goto(t, "state", 0)
    /\ UNCHANGED <<not_job, state, retained, queued, will, pub, sub, mpc, hooks,
                   shutdown, counters>>

\* the activation of thread t after one step
Continue(t, a) ==
    IF t = "main"
    THEN mainD' = <<a>> \o Tail(mainD) /\ UNCHANGED busD
    ELSE busD' = Some(a) /\ UNCHANGED mainD

PendingValue(t) == IF t = "main" THEN Head(mainD).val ELSE Val(busD).val

\* disconnected(): self.state = self.DISCONNECTED; __setattr__ has read the
\* value it is about to publish
SetDisconnected(t) ==
    /\ At(t, "state")
    /\ state' = "disconnected"
    /\ Continue(t, Publishing("disconnected"))
    /\ UNCHANGED <<not_job, retained, queued, will, pub, sub, mpc, hooks, shutdown,
                   on_disconnects, counters>>

\* __setattr__ of an entry action: publish_attr hands the value it read to the
\* pub client; disconnected() and init() go on, ready() and sleeping() return
PublishState(t) ==
    /\ At(t, "publish")
    /\ publish_attr(PendingValue(t))
    /\ CASE PendingValue(t) = "disconnected" -> Goto(t, "pub", 0)
         [] PendingValue(t) = "init" -> Goto(t, "reinit", 0)
         [] OTHER -> busD' = None /\ UNCHANGED mainD
    /\ UNCHANGED <<not_job, state, will, pub, sub, mpc, hooks, shutdown,
                   on_disconnects, counters>>

\* init() off the main thread: the clients are stopped, disconnected and
\* replaced, and the listeners subscribed again
ReInit ==
    /\ At("bus", "reinit")
    /\ create_pub_client /\ create_sub_client
    /\ reinits' = reinits + 1
    /\ queued' = None
    /\ declare_settable_properties_to_broker
    /\ listening' = InitListeners
    /\ busD' = None
    /\ UNCHANGED <<not_init, state, retained, mpc, hooks, mainD, shutdown,
                   on_disconnects, signals, writes, written, drops>>

\* disconnected(): loop_stop() and disconnect() of the pub client
StopPub(t) ==
    /\ At(t, "pub")
    /\ IF pub \in {"up", "down"}
       THEN pub' = "closed" /\ will' = None
       ELSE UNCHANGED <<pub, will>>
    /\ queued' = None
    /\ Goto(t, "sub", reinits)
    /\ UNCHANGED <<not_job, state, retained, sub, mpc, hooks, shutdown,
                   on_disconnects, counters>>

\* disconnected(): loop_stop() and disconnect() of the sub client; loop_stop joins
\* the client's thread unless it is called on it
StopSub(t) ==
    /\ At(t, "sub")
    /\ t = "main" => busD = None
    /\ sub' = IF Gen(t) = reinits /\ sub \in {"up", "down"} THEN "stopped" ELSE sub
    /\ Goto(t, "kill", Gen(t))
    /\ UNCHANGED <<not_job, state, retained, queued, will, pub, mpc, hooks, shutdown,
                   on_disconnects, counters>>

\* disconnected(): os.kill(os.getpid(), SIGUSR1); exit_python calls sys.exit(0) on
\* the main thread, which runs the atexit hook; without the handler, or inside
\* the atexit hook, the process ends
Kill(t) ==
    /\ At(t, "kill")
    /\ IF hooks /\ mpc # "exiting"
       THEN /\ mpc' = "exiting"
            /\ mainD' = <<>>
            /\ busD' = IF t = "bus" THEN None ELSE busD
            /\ UNCHANGED <<retained, queued, will, pub, sub>>
       ELSE ProcessEnds("exited")
    /\ UNCHANGED <<not_job, state, hooks, shutdown, on_disconnects, counters>>

\* the atexit hook: disconnect_gracefully
AtExit ==
    /\ mpc = "exiting" /\ mainD = <<>>
    /\ IF state = "disconnected"
       THEN ProcessEnds("exited")
       ELSE /\ mainD' = <<Activation("on_disconnect", 0)>>
            /\ UNCHANGED <<retained, queued, will, pub, sub, mpc, busD>>
    /\ UNCHANGED <<not_job, state, hooks, shutdown, on_disconnects, counters>>

\* set_state with a method for every lifecycle state
EntryErrorLostEnters(new_state) ==
    IF new_state \notin LIFECYCLE_STATES THEN "AssertionError" ELSE "none"

\* set_state calling whatever it is given
EntryErrorNoAssertion(new_state) ==
    IF new_state = "lost" THEN "AttributeError" ELSE "none"

\* set_state: the assertion, then getattr(self, new_state)(); the class has no
\* method lost
EntryError(new_state) ==
    CASE new_state \notin LIFECYCLE_STATES -> "AssertionError"
      [] new_state = "lost" -> "AttributeError"
      [] OTHER -> "none"

\* set_attr_from_message for a message on state/set, on the sub client's thread:
\* set_state(new_state) asserts the value and calls the method of that name
StateSet(new_state) ==
    /\ Alive /\ mpc \notin {"new", "check", "init"}
    /\ sub = "up" /\ busD = None
    /\ writes < MaxWrites
    /\ writes' = writes + 1
    /\ written' = Some([value |-> new_state, error |-> EntryError(new_state)])
    /\ CASE EntryError(new_state) # "none" ->
              UNCHANGED <<state, busD>>
         [] new_state = "disconnected" ->
              /\ busD' = Some(Activation("on_disconnect", 0))
              /\ UNCHANGED state
         [] OTHER ->
              \* the entry action assigns self.state
              /\ state' = new_state
              /\ busD' = Some(Publishing(new_state))
    /\ UNCHANGED <<not_job, retained, queued, will, pub, sub, mpc, hooks, mainD, shutdown,
                   on_disconnects, signals, reinits, drops>>

WriteState == \E v \in StateWrites : StateSet(v)

\* the pub client's connection to the broker is lost (no PINGREQ within the
\* keepalive of 10 s): the broker publishes the last-will
PubDrops ==
    /\ Alive /\ pub = "up"
    /\ drops < MaxDrops
    /\ drops' = drops + 1
    /\ pub' = "down"
    /\ retained' = IF will # None THEN will ELSE retained
    /\ will' = None
    /\ UNCHANGED <<not_job, state, queued, sub, mpc, hooks, mainD, busD, shutdown,
                   on_disconnects, signals, writes, written, reinits>>

\* the pub client reconnects with the CONNECT it was created with and sends
\* what it held; create_pub_client gave it no on_connect
PubReconnects ==
    /\ Alive /\ pub = "down"
    /\ pub' = "up"
    /\ will' = Some("lost")
    /\ retained' = IF queued # None THEN queued ELSE retained
    /\ queued' = None
    /\ UNCHANGED <<not_job, state, sub, mpc, hooks, mainD, busD, shutdown,
                   on_disconnects, counters>>

\* the sub client's connection to the broker is lost
SubDrops ==
    /\ Alive /\ sub = "up"
    /\ drops < MaxDrops
    /\ drops' = drops + 1
    /\ sub' = "down"
    /\ UNCHANGED <<not_job, state, retained, queued, will, pub, mpc, hooks, mainD, busD,
                   shutdown, on_disconnects, signals, writes, written, reinits>>

\* the sub client reconnects: reconnect_protocol, on the sub client's thread,
\* publishes the state and subscribes the listeners again
reconnect_protocol ==
    /\ Alive /\ sub = "down" /\ busD = None
    /\ sub' = "up"
    /\ publish_attr(state)
    /\ listening' = General \cup Passive
    /\ UNCHANGED <<not_init, declared, state, will, pub, mpc, hooks, mainD, busD, shutdown,
                   on_disconnects, counters>>

JobNext ==
    \/ CreateClients \/ CheckPasses \/ ConstructInit \/ ConstructReady
    \/ ConstructPublishReady \/ set_up_disconnect_protocol
    \/ Signal \/ Crash \/ WriteState \/ AtExit \/ ReInit
    \/ PubDrops \/ PubReconnects \/ SubDrops \/ reconnect_protocol
    \/ \E t \in {"main", "bus"} :
          \/ OnDisconnect(t) \/ SetDisconnected(t) \/ PublishState(t)
          \/ StopPub(t) \/ StopSub(t) \/ Kill(t)

SpecJob == JobInit /\ [][JobNext]_vars


(***************************************************************************)
(* Properties of the background job                                        *)
(***************************************************************************)
Ended == mpc \in {"exited", "killed", "crashed"}

\* C4: a job that was ready or sleeping when SIGTERM or SIGINT reached it ends
\* with the retained $state `disconnected`, never `lost`
C4_CleanShutdownIsDisconnected ==
    (shutdown /\ mpc \in {"exited", "killed"}) => retained = Some("disconnected")

\* the shutdown signal of a ready job whose handlers are installed, with no
\* message on state/set, ends with the retained $state `disconnected`
QuietShutdownIsDisconnected ==
    (shutdown /\ mpc = "exited" /\ writes = 0 /\ signals = 1 /\ drops = 0)
        => retained = Some("disconnected")

ClaimedEdges ==
    {<<"init", "ready">>, <<"ready", "sleeping">>, <<"sleeping", "ready">>,
     <<"ready", "disconnected">>, <<"sleeping", "disconnected">>}

Constructed == mpc \notin {"new", "check", "init"}

PublishPending ==
    \/ mpc = "publish_ready"
    \/ busD # None /\ Val(busD).at = "publish"
    \/ \E i \in DOMAIN mainD : mainD[i].at = "publish"

\* C12: on a connected job every entry action publishes the state it entered, so
\* the last value published on $state is the job's state (sleeping after
\* set_state("sleeping")); without a connection drop the retained value is the
\* last value the job published
C12_PublishedStateIsState ==
    (Alive /\ Constructed /\ pub = "up" /\ drops = 0 /\ ~PublishPending)
        => retained = Some(state)

\* a constructed job with both clients connected and no thread inside an entry
\* action: nothing but a new signal, write or drop changes the retained $state
Settled ==
    /\ mpc = "idle" /\ mainD = <<>> /\ busD = None
    /\ pub = "up" /\ sub = "up"

\* C13: once the connections of a live job are re-established, a last-will
\* `lost` left on $state by a connection drop has been overwritten by the
\* job's state
C13_LostIsOverwritten == Settled => retained # Some("lost")

\* the step serves a write to state/set
WriteServed == writes' = writes + 1

\* C17: no step sets the job's state to lost or has the job publish lost, at once
\* or held for the reconnect; a step that puts lost on $state is the broker's
\* publishing the last-will of the pub client whose connection ends.
C17_LostOnlyAsLastWill ==
    [][/\ state' # "lost"
       /\ queued' # Some("lost")
       /\ (retained' = Some("lost") /\ retained # Some("lost"))
             => (will = Some("lost") /\ pub = "up" /\ pub' \in {"down", "dropped"})]_vars

\* lost was written to state/set and served; the job is ready and has published so
C17_Witness ==
    /\ written # None /\ Val(written).value = "lost"
    /\ mpc = "idle" /\ busD = None /\ pub = "up" /\ drops = 0
    /\ state = "ready" /\ retained = Some("ready")

\* what a served write to state/set does when the values in entering are those
\* with an entry action: an entering value starts its entry action, which for
\* all but disconnected has assigned the state; any other value is rejected with
\* an error, starts nothing and leaves the state and the retained $state alone
WriteEnters(entering) ==
    WriteServed =>
        LET w == Val(written') IN
        IF w.value \in entering
        THEN /\ w.error = "none"
             /\ busD' # None
             /\ w.value # "disconnected" => state' = w.value
        ELSE /\ w.error # "none"
             /\ busD' = None /\ on_disconnects' = on_disconnects
             /\ state' = state /\ retained' = retained /\ queued' = queued

\* C18 as stated: each of the five lifecycle values written to state/set is
\* entered, every other value is rejected.
C18_LifecycleWriteEnters == [][WriteEnters(LIFECYCLE_STATES)]_vars

\* C18: init, ready, sleeping and disconnected written to state/set are entered;
\* lost and every value that is no lifecycle state are rejected with an error,
\* with no entry action and the state and the retained $state unchanged.
C18_WriteEntersOrRejects == [][WriteEnters(LIFECYCLE_STATES \ {"lost"})]_vars

\* a value that is no state was written while the job slept, and rejected
C18_Witness ==
    /\ written # None /\ Val(written).value = "bogus"
    /\ Val(written).error = "AssertionError"
    /\ writes = 2 /\ state = "sleeping" /\ retained = Some("sleeping")
    /\ busD = None /\ pub = "up"

(***************************************************************************)
(* Start-ups of jobs on one unit.                                          *)
(***************************************************************************)
Procs == 1..NumProcs

JobNames == {"od_reading", "stirring"}

\* a process that has not been started
Off == [pc |-> "off", job_name |-> "od_reading", published |-> {}, runs |-> 0]

StartInit ==
    /\ NoIo /\ NoJob /\ NoSub /\ NoSet /\ NoOther
    /\ instances = [p \in Procs |-> Off]
    /\ state_topic = [n \in JobNames |-> None]

\* the process list holds a process from its start to its end
InProcessList(q) == instances[q].pc \notin {"off", "gone"}

\* the number of running processes of the job
pio_jobs_running(name) ==
    Cardinality({q \in Procs : InProcessList(q) /\ instances[q].job_name = name})

\* check_for_duplicate_process with the bound one too high
AlreadyRunningOffByOne(p) == pio_jobs_running(instances[p].job_name) > 2

\* check_for_duplicate_process: this process counts as one
AlreadyRunning(p) == pio_jobs_running(instances[p].job_name) > 1

\* instance p moves on without publishing
Become(p, pc1) ==
    /\ instances' = [instances EXCEPT ![p].pc = pc1]
    /\ UNCHANGED state_topic

\* instance p publishes its state, retained, and moves on
PublishesState(p, payload, pc1) ==
    /\ instances' = [instances EXCEPT ![p].pc = pc1,
                                      ![p].published = @ \cup {payload}]
    /\ state_topic' = [state_topic EXCEPT ![instances[p].job_name] = Some(payload)]

\* the process of p ends without a DISCONNECT of its pub client: the broker
\* publishes the last-will
EndsWithWill(p) ==
    /\ instances' = [instances EXCEPT ![p].pc = "gone"]
    /\ state_topic' = [state_topic EXCEPT ![instances[p].job_name] = Some("lost")]

\* the process of a job is started
StartProcess(p) ==
    /\ instances[p].pc \in {"off", "gone"}
    /\ instances[p].runs < MaxStarts
    /\ \E name \in JobNames :
          instances' = [instances EXCEPT ![p] =
              [pc |-> "started", job_name |-> name, published |-> {},
               runs |-> @.runs + 1]]
    /\ UNCHANGED <<not_start, state_topic>>

\* __init__: the two clients
StartClients(p) ==
    /\ instances[p].pc = "started"
    /\ Become(p, "clients")
    /\ UNCHANGED <<not_start>>

\* __init__: check_for_duplicate_process raises ValueError or returns
check_for_duplicate_process(p) ==
    /\ instances[p].pc = "clients"
    /\ Become(p, IF AlreadyRunning(p) THEN "failed" ELSE "init")
    /\ UNCHANGED <<not_start>>

\* the ValueError ends the process
FailedExits(p) ==
    /\ instances[p].pc = "failed"
    /\ EndsWithWill(p)
    /\ UNCHANGED <<not_start>>

\* __init__: set_state(INIT)
StartSetInit(p) ==
    /\ instances[p].pc = "init"
    /\ PublishesState(p, "init", "to_ready")
    /\ UNCHANGED <<not_start>>

\* __init__: set_state(READY)
StartSetReady(p) ==
    /\ instances[p].pc = "to_ready"
    /\ PublishesState(p, "ready", "ready")
    /\ UNCHANGED <<not_start>>

\* a message on state/set pauses or resumes the job
PauseResume(p) ==
    /\ instances[p].pc \in {"ready", "sleeping"}
    /\ LET to == IF instances[p].pc = "ready" THEN "sleeping" ELSE "ready"
       IN  PublishesState(p, to, to)
    /\ UNCHANGED <<not_start>>

\* disconnected(): the job publishes disconnected, closes its clients and exits
Stops(p) ==
    /\ instances[p].pc \in {"ready", "sleeping"}
    /\ PublishesState(p, "disconnected", "gone")
    /\ UNCHANGED <<not_start>>

\* the process is killed while its clients are connected
Killed(p) ==
    /\ instances[p].pc \in {"clients", "init", "to_ready", "ready", "sleeping"}
    /\ EndsWithWill(p)
    /\ UNCHANGED <<not_start>>

StartNext ==
    \E p \in Procs :
        \/ StartProcess(p) \/ StartClients(p) \/ check_for_duplicate_process(p)
        \/ FailedExits(p) \/ StartSetInit(p) \/ StartSetReady(p)
        \/ PauseResume(p) \/ Stops(p) \/ Killed(p)

SpecStart == StartInit /\ [][StartNext]_vars

(***************************************************************************)
(* Properties of the start-ups                                             *)
(***************************************************************************)
PastCheck(p) == instances[p].pc \in {"init", "to_ready", "ready", "sleeping"}

Levels == {"a", "b"}

\* a topic is a sequence of levels; a pattern may hold + at any level and # as
\* its last level
Topics == UNION {[1..n -> Levels] : n \in 1..MaxLevels}

Patterns ==
    {p \in UNION {[1..n -> Levels \cup {"+", "#"}] : n \in 1..MaxLevels} :
        \A i \in 1..Len(p) : p[i] = "#" => i = Len(p)}

\* paho's topic_matches_sub(sub, topic)
RECURSIVE topic_matches_sub(_, _)
topic_matches_sub(pattern, topic) ==
    IF pattern = <<>> THEN topic = <<>>
    ELSE IF Head(pattern) = "#" THEN TRUE
    ELSE IF topic = <<>> THEN FALSE
    ELSE /\ Head(pattern) \in {"+", Head(topic)}
         /\ topic_matches_sub(Tail(pattern), Tail(topic))

\* subscribe_and_callback is called with a callable and a pattern or a list
\* of patterns
SubInit ==
    /\ NoIo /\ NoJob /\ NoStart /\ NoSet /\ NoOther
    /\ subscriptions \in UNION {[1..n -> Patterns] : n \in 1..2}
    /\ todo = subscriptions
    /\ sac = "loop"
    /\ callbacks = {} /\ subscribed = {} /\ calls = 0 /\ messages = 0
    /\ cb_logged = 0 /\ escapes = 0 /\ sub_thread = "running"

\* for sub in subscriptions: message_callback_add(sub, ...); subscribe(sub)
Register ==
    /\ sac = "loop" /\ todo # <<>>
    /\ callbacks' = callbacks \cup {Head(todo)}
    /\ subscribed' = subscribed \cup {Head(todo)}
    /\ todo' = Tail(todo)
    /\ UNCHANGED <<not_sub, subscriptions, sac, calls, messages, cb_logged, escapes,
                   sub_thread>>

\* the loop is over: return
SubReturn ==
    /\ sac = "loop" /\ todo = <<>>
    /\ sac' = "returned"
    /\ UNCHANGED <<not_sub, subscriptions, todo, callbacks, subscribed, calls, messages,
                   cb_logged, escapes, sub_thread>>

\* the patterns whose callback the client calls for a message on topic
Matching(topic) == {p \in callbacks : topic_matches_sub(p, topic)}

\* a message on a topic the client is subscribed to arrives: the client's
\* thread calls the wrapped callback of every registered pattern that matches
\* the topic. _callback: try: return actual_callback(message); except Exception:
\* logger.error, raise e. The exception leaves the wrapper in the client's
\* thread, which the client lets end or keeps running
Deliver(topic) ==
    /\ sub_thread = "running"
    /\ messages < MaxMessages
    /\ \E p \in subscribed : topic_matches_sub(p, topic)
    /\ messages' = messages + 1
    /\ \E raises \in BOOLEAN :
          IF raises /\ Matching(topic) # {}
          THEN /\ calls' \in 1 .. Cardinality(Matching(topic))
               /\ cb_logged' = cb_logged + 1
               /\ escapes' = escapes + 1
               /\ sub_thread' \in {"running", "ended"}
          ELSE /\ calls' = Cardinality(Matching(topic))
               /\ UNCHANGED <<cb_logged, escapes, sub_thread>>
    /\ UNCHANGED <<not_sub, subscriptions, todo, sac, callbacks, subscribed>>

SubNext ==
    \/ Register \/ SubReturn
    \/ \E topic \in Topics : Deliver(topic)

SpecSub == SubInit /\ [][SubNext]_vars

(***************************************************************************)
(* Properties of subscribe_and_callback                                    *)
(***************************************************************************)
\* two of the patterns of the call match one concrete topic
Overlapping ==
    \E i, j \in 1..Len(subscriptions), t \in Topics :
        /\ i # j
        /\ topic_matches_sub(subscriptions[i], t)
        /\ topic_matches_sub(subscriptions[j], t)

\* C11: a call whose patterns overlap registers no subscription and no message
\* reaches the callback
C11_OverlapRaisesFirst ==
    Overlapping => (callbacks = {} /\ subscribed = {} /\ calls = 0)


(***************************************************************************)
(* Editable settings: LogAggregation's attributes, __setattr__ and         *)
(* set_attr_from_message.                                                  *)
(***************************************************************************)
\* Python values
PyInt(n) == <<"int", n>>
PyStr(chars) == <<"str", chars>>
PyNone == <<"NoneType">>
\* the attribute does not exist
Unset == <<"unset">>

\* payloads of set messages, as strings of characters
Chars == {"1", "2", "x"}
Payloads == UNION {[1..n -> Chars] : n \in 0..MaxPayload}

Digit(c) == IF c = "1" THEN 1 ELSE 2

\* int(s) succeeds on a non-empty string of digits
IsInt(chars) == chars # <<>> /\ \A i \in 1..Len(chars) : chars[i] \in {"1", "2"}

RECURSIVE IntOf(_)
IntOf(chars) ==
    IF chars = <<>> THEN 0
    ELSE 10 * IntOf(SubSeq(chars, 1, Len(chars) - 1)) + Digit(chars[Len(chars)])

\* type(previous_value)(new_value): the value, or the exception raised
Coerce(previous_value, new_value) ==
    CASE previous_value[1] = "int" ->
            IF IsInt(new_value) THEN <<"ok", PyInt(IntOf(new_value))>>
            ELSE <<"raise", "ValueError">>
      [] previous_value[1] = "str" -> <<"ok", PyStr(new_value)>>
      [] OTHER -> <<"raise", "TypeError">>

\* attributes the instance assigns
Assigned == {"output", "log_display_count"}

\* last segments of the set topics served: settings, another attribute, a name
\* the job does not have
AttrNames == {"log_display_count", "state", "output", "missing"}

\* info_from_topic.attr.lstrip("$")
lstrip(segment) == segment.name

\* the editable check left out
IsEditableAlways(attr) == TRUE

\* attr in self.editable_settings
IsEditable(attr) == attr \in editable_settings

\* hasattr(self, attr): state is a class attribute
HasAttr(attr) ==
    \/ attr = "state"
    \/ attr \in Assigned /\ attrs[attr] # Unset

\* hasattr(self, "set_%s" % attr)
HasHook(attr) == attr = "state"

\* super().__init__ has returned: the job is ready and listens, and
\* LogAggregation.__init__ goes on to assign its attributes
SetInit ==
    /\ NoIo /\ NoJob /\ NoStart /\ NoSub /\ NoOther
    /\ attrs = [a \in Assigned |-> Unset]
    /\ attr_topic = [a \in editable_settings |-> None]
    /\ main_set = None /\ bus_set = None
    /\ escaped = None /\ hook_calls = 0 /\ served = None /\ updated_logs = 0
    /\ assigns = 0 /\ set_msgs = 0

\* __init__: self.output = output
AssignOutput ==
    /\ assigns = 0
    /\ assigns' = 1
    /\ attrs' = [attrs EXCEPT !["output"] = PyStr(<<"x">>)]
    /\ UNCHANGED <<not_set, attr_topic, main_set, bus_set, escaped, hook_calls, served,
                   updated_logs, set_msgs>>

\* __init__: self.log_display_count = log_display_count
AssignLogDisplayCount ==
    /\ assigns = 1
    /\ assigns' = 2
    /\ \E v \in {PyInt(1), PyInt(2), PyNone} :
          /\ attrs' = [attrs EXCEPT !["log_display_count"] = v]
          /\ main_set' = Some(<<"log_display_count", v>>)
    /\ UNCHANGED <<not_set, attr_topic, bus_set, escaped, hook_calls, served,
                   updated_logs, set_msgs>>

\* publish_attr on the main thread: the value read is published, retained
MainPublish ==
    /\ main_set # None
    /\ attr_topic' = [attr_topic EXCEPT ![Val(main_set)[1]] = Some(Val(main_set)[2])]
    /\ main_set' = None
    /\ UNCHANGED <<not_set, attrs, bus_set, escaped, hook_calls, served, updated_logs,
                   assigns, set_msgs>>

\* the handler returns or raises without assigning
Returns(error) ==
    /\ escaped' = error
    /\ UNCHANGED <<attrs, bus_set, hook_calls>>

\* setattr(self, attr, value) on the bus thread; publish_attr has read the value
BusAssigns(attr, value) ==
    /\ attrs' = [attrs EXCEPT ![attr] = value]
    /\ bus_set' = Some(<<attr, value>>)
    /\ escaped' = None
    /\ UNCHANGED hook_calls

\* set_attr_from_message up to the assignment
Handle(segment, new_value) ==
    LET attr == lstrip(segment) IN
    IF ~IsEditable(attr) THEN Returns(None)
    ELSE IF ~HasAttr(attr) THEN Returns(Some("AssertionError"))
    ELSE IF HasHook(attr)
         \* set_state(new_value): no payload served here is a lifecycle state
         THEN /\ hook_calls' = hook_calls + 1
              /\ escaped' = Some("AssertionError")
              /\ UNCHANGED <<attrs, bus_set>>
    ELSE LET c == Coerce(attrs[attr], new_value) IN
         IF c[1] = "ok" THEN BusAssigns(attr, c[2])
         ELSE IF c[2] = "TypeError" THEN BusAssigns(attr, PyStr(new_value))
         ELSE Returns(Some(c[2]))

\* paho delivers a message on .../<attr>/set to set_attr_from_message
SetMessage ==
    /\ bus_set = None
    /\ set_msgs < MaxSetMessages
    /\ set_msgs' = set_msgs + 1
    /\ \E dollars \in 0..MaxDollars, name \in AttrNames, new_value \in Payloads :
          LET segment == [dollars |-> dollars, name |-> name] IN
          /\ served' = Some([segment |-> segment, payload |-> new_value])
          /\ Handle(segment, new_value)
    /\ UNCHANGED <<not_set, attr_topic, main_set, updated_logs, assigns>>

\* publish_attr on the bus thread, then the "Updated ..." log line
BusPublish ==
    /\ bus_set # None
    /\ attr_topic' = [attr_topic EXCEPT ![Val(bus_set)[1]] = Some(Val(bus_set)[2])]
    /\ bus_set' = None
    /\ updated_logs' = updated_logs + 1
    /\ UNCHANGED <<not_set, attrs, main_set, escaped, hook_calls, served, assigns,
                   set_msgs>>

SetNext ==
    \/ AssignOutput
    \/ AssignLogDisplayCount
    \/ MainPublish
    \/ SetMessage
    \/ BusPublish

SpecSet == SetInit /\ [][SetNext]_vars

(***************************************************************************)
(* Claims about editable settings.                                         *)
(***************************************************************************)
\* the set message just served and the name it addresses
ServedName == lstrip(Val(served).segment)
MessageServed == set_msgs' = set_msgs + 1
NameServed == lstrip(Val(served').segment)

\* C14: once every publish that an assignment started has been made, the value
\* last published for log_display_count is the value the attribute holds.
C14_LastPublishedIsCurrent ==
    (main_set = None /\ bus_set = None /\ attrs["log_display_count"] # Unset)
        => attr_topic["log_display_count"] = Some(attrs["log_display_count"])

C16_CoercionFailureAssignsRaw ==
    [][(MessageServed /\ NameServed = "log_display_count"
          /\ attrs["log_display_count"] # Unset)
          => /\ escaped' = None
             /\ \/ attrs'["log_display_count"] = PyStr(Val(served').payload)
                \/ /\ IsInt(Val(served').payload)
                   /\ attrs'["log_display_count"] = PyInt(IntOf(Val(served').payload))]_vars

(***************************************************************************)
(* Fleet dispatch: one invocation of pios.                                 *)
(***************************************************************************)
\* hostnames an invocation can name or the inventory can hold
Units == {"pioreactor1", "pioreactor2"}

UNIVERSAL_IDENTIFIER == "$broadcast"

Subcommands == {"update", "sync-configs", "kill", "run", "update-settings"}

\* pios <subcommand> [--units ...] [-y] is invoked on a node
FleetInit ==
    /\ NoIo /\ NoJob /\ NoStart /\ NoSub /\ NoSet /\ NoPump /\ NoBus
    /\ leader \in BOOLEAN
    /\ inventory \in SUBSET Units
    /\ subcommand \in Subcommands
    /\ units \in {{UNIVERSAL_IDENTIFIER}} \cup (SUBSET Units \ {{}})
    /\ skip_confirm \in BOOLEAN
    /\ confirm \in {"Y", "n"}
    /\ fpc = "group"
    /\ dispatched = {}

universal_identifier_to_all_units(us) ==
    IF us = {UNIVERSAL_IDENTIFIER} THEN inventory ELSE us

\* the group callback with the test of am_I_leader left out
piosAnyNode ==
    /\ fpc = "group"
    /\ fpc' = IF inventory = {} THEN "exited" ELSE "body"
    /\ UNCHANGED <<not_fleet, leader, inventory, subcommand, units, skip_confirm, confirm,
                   dispatched>>

\* the group callback, which click runs ahead of the sub-command: sys.exit(0)
\* on a worker and on a leader without active workers
pios ==
    /\ fpc = "group"
    /\ fpc' = IF ~leader \/ inventory = {} THEN "exited" ELSE "body"
    /\ UNCHANGED <<not_fleet, leader, inventory, subcommand, units, skip_confirm, confirm,
                   dispatched>>

\* the sub-command's body up to the fan-out: kill and run ask for confirmation
\* unless -y was given and return on any answer but Y
Body ==
    /\ fpc = "body"
    /\ fpc' = IF subcommand \in {"kill", "run"} /\ ~skip_confirm /\ confirm # "Y"
              THEN "done" ELSE "fanout"
    /\ UNCHANGED <<not_fleet, leader, inventory, subcommand, units, skip_confirm, confirm,
                   dispatched>>

\* _thread_function(unit) of the pool: ssh, sftp or publish to the unit
Task(unit) ==
    /\ fpc = "fanout"
    /\ unit \in universal_identifier_to_all_units(units) \ dispatched
    /\ dispatched' = dispatched \cup {unit}
    /\ UNCHANGED <<not_fleet, leader, inventory, subcommand, units, skip_confirm, confirm,
                   fpc>>

\* the pool has run every task and the sub-command returns
Joined ==
    /\ fpc = "fanout"
    /\ universal_identifier_to_all_units(units) \subseteq dispatched
    /\ fpc' = "done"
    /\ UNCHANGED <<not_fleet, leader, inventory, subcommand, units, skip_confirm, confirm,
                   dispatched>>

FleetNext ==
    \/ pios
    \/ Body
    \/ \E unit \in Units : Task(unit)
    \/ Joined

SpecFleet == FleetInit /\ [][FleetNext]_vars

\* C26: on a node that is not the leader the invocation is at the group callback
\* or has exited from it: no sub-command body has run and nothing was
\* dispatched to any unit.
C26_WorkersDispatchNothing ==
    ~leader => (fpc \in {"group", "exited"} /\ dispatched = {})

\* a worker's pios run -y with active workers in the inventory has exited
C26_Witness ==
    /\ ~leader /\ fpc = "exited"
    /\ inventory = Units /\ subcommand = "run" /\ skip_confirm
    /\ units = {UNIVERSAL_IDENTIFIER}

(***************************************************************************)
(* The media pump: one call of add_media.                                  *)
(***************************************************************************)
\* values a caller passes as ml or as duration
PumpArgs == {None, Some(R(0 - 1, 1)), Some(Zero), Some(R(1, 2)), Some(One)}

DutyCycles == {0 - 1, 33, 100, 101}

\* the coefficient of the unit's calibration, seconds per mL
duration_ == R(1, 2)

pump_ml_to_duration(ml_) == RMul(ml_, R(duration_[2], duration_[1]))

pump_duration_to_ml(secs) == RMul(secs, duration_)

\* add_media(ml, duration, duty_cycle) is called on a unit whose calibration
\* is or is not in the configuration
PumpInit ==
    /\ NoIo /\ NoJob /\ NoStart /\ NoSub /\ NoSet /\ NoFleet /\ NoBus
    /\ pump_ml \in PumpArgs
    /\ pump_duration \in PumpArgs
    /\ duty_cycle \in DutyCycles
    /\ calibrated \in BOOLEAN
    /\ ppc = "call"
    /\ pump_error = None
    /\ dosing_events = 0
    /\ pwm = "off"
    /\ cleanups = 0

\* the local duration after the conversion (the argument when it was given)
DurationOf ==
    IF pump_ml # None THEN pump_ml_to_duration(Val(pump_ml)) ELSE Val(pump_duration)

\* what lines 35-63 raise, in the order the statements run, or None
Rejection ==
    IF ~(0 <= duty_cycle /\ duty_cycle <= 100) THEN Some("AssertionError")
    ELSE IF pump_ml = None /\ pump_duration = None THEN Some("AssertionError")
    ELSE IF pump_ml # None /\ pump_duration # None THEN Some("AssertionError")
    ELSE IF pump_ml # None /\ RLess(Val(pump_ml), Zero) THEN Some("AssertionError")
    ELSE IF ~calibrated THEN Some("KeyError")
    ELSE IF RLess(DurationOf, Zero) THEN Some("AssertionError")
    ELSE None

\* the checks and the conversion, then the publish to dosing_events
Validate ==
    /\ ppc = "call"
    /\ pump_error' = Rejection
    /\ IF Rejection # None
       THEN ppc' = "raised" /\ UNCHANGED dosing_events
       ELSE ppc' = "setup" /\ dosing_events' = dosing_events + 1
    /\ UNCHANGED <<not_pump, pump_ml, pump_duration, duty_cycle, calibrated, pwm, cleanups>>

\* GPIO set-up and pwm.start(duty_cycle); the set-up can raise
Start ==
    /\ ppc = "setup"
    /\ \/ /\ pwm' = "on" /\ ppc' = "sleep"
          /\ UNCHANGED <<pump_error, cleanups>>
       \/ /\ pump_error' = Some("Exception") /\ ppc' = "raised"
          /\ cleanups' = cleanups + 1
          /\ UNCHANGED pwm
    /\ UNCHANGED <<not_pump, pump_ml, pump_duration, duty_cycle, calibrated, dosing_events>>

\* time.sleep(duration) is over: pwm.stop(), then clean_up_gpio() and return
Stop ==
    /\ ppc = "sleep"
    /\ pwm' = "stopped"
    /\ cleanups' = cleanups + 1
    /\ ppc' = "returned"
    /\ UNCHANGED <<not_pump, pump_ml, pump_duration, duty_cycle, calibrated, pump_error,
                   dosing_events>>

PumpNext ==
    \/ Validate
    \/ Start
    \/ Stop

SpecPump == PumpInit /\ [][PumpNext]_vars

\* the arguments the claim calls invalid
InvalidArgs ==
    \/ pump_ml # None /\ RLess(Val(pump_ml), Zero)
    \/ pump_duration # None /\ RLess(Val(pump_duration), Zero)
    \/ pump_ml # None /\ pump_duration # None
    \/ pump_ml = None /\ pump_duration = None

\* C27: a call of add_media with invalid arguments (negative ml, negative
\* duration, both given, neither given) is rejected with an assertion error,
\* and nothing was published to dosing_events and the pump was not switched on.
C27_InvalidRejectedByAssertion ==
    (InvalidArgs /\ ppc # "call") =>
        /\ pump_error = Some("AssertionError")
        /\ dosing_events = 0
        /\ pwm = "off"

(***************************************************************************)
(* Properties of the terminal legs of execute_io_action.                   *)
(***************************************************************************)
\* the pump call made last, or None
LastCall == IF pumps = <<>> THEN None ELSE Some(pumps[Len(pumps)])

\* no addition was made since the last removal: a leg is at its first call
AtLegStart == LastCall = None \/ Val(LastCall)[1] = "remove_waste"

\* a step that calls a driver calls one driver, with a volume > 0 that is the
\* leg's volume for it, in the order alt, media, waste: the media follows the
\* leg's alt media if there is any, the waste follows the leg's additions and
\* ends the leg
LegOrder ==
    Len(pumps') > Len(pumps) =>
        /\ pc = "io" /\ stack # <<>>
        /\ Len(pumps') = Len(pumps) + 1
        /\ SubSeq(pumps', 1, Len(pumps)) = pumps
        /\ LET f == Head(stack)
               call == pumps'[Len(pumps')]
           IN /\ RLess(Zero, call[2])
              /\ call[1] \in {"add_alt_media", "add_media", "remove_waste"}
              /\ call[1] = "add_alt_media" => (call[2] = f.alt /\ AtLegStart)
              /\ call[1] = "add_media" =>
                    /\ call[2] = f.media
                    /\ IF RLess(Zero, f.alt)
                       THEN LastCall = Some(<<"add_alt_media", f.alt>>)
                       ELSE AtLegStart
              /\ call[1] = "remove_waste" =>
                    /\ call[2] = f.waste
                    /\ stack' = Tail(stack)
                    /\ IF RLess(Zero, f.media)
                       THEN LastCall = Some(<<"add_media", f.media>>)
                       ELSE IF RLess(Zero, f.alt)
                       THEN LastCall = Some(<<"add_alt_media", f.alt>>)
                       ELSE AtLegStart

\* C28: within a terminal leg the drivers are called one at a time in the
\* order add_alt_media, add_media, remove_waste, each only for a volume > 0;
\* the waste is removed only after the leg's additions were made.
C28_LegOrder == [][LegOrder]_vars

\* a leg has made all three calls, one after the other
C28_Witness ==
    \E i \in 1 .. Len(pumps) - 2 :
        /\ pumps[i][1] = "add_alt_media"
        /\ pumps[i + 1][1] = "add_media"
        /\ pumps[i + 2][1] = "remove_waste"

\* the main thread keeps running inside execute_io_action: an invocation that
\* was entered proceeds, and a driver that was called returns
IoThread == EnterIoAction \/ add_alt_media \/ add_media \/ remove_waste

SpecIo == Init /\ [][Next]_vars /\ WF_vars(IoThread)

RECURSIVE Moved(_, _)
\* the volume the calls of driver in the sequence made have moved
Moved(made, driver) ==
    IF made = <<>> THEN Zero
    ELSE LET rest == Moved(Tail(made), driver)
         IN IF Head(made)[1] = driver THEN RAdd(Head(made)[2], rest) ELSE rest

\* the pump calls made add up to the request
Delivered ==
    /\ Moved(pumps, "add_alt_media") = Val(request)[1]
    /\ Moved(pumps, "add_media") = Val(request)[2]
    /\ Moved(pumps, "remove_waste") = Val(request)[3]

\* the main thread is inside a request that satisfies conservation
InConservedRequest == pc = "io" /\ request # None /\ RequestConserved

\* C29: a request that satisfies conservation comes to its end; each of its
\* pump calls moves at most 0.5 mL; and once it is over the volumes of its
\* calls add up to the requested alt_media_ml, media_ml and waste_ml.
C29_SplittingTerminates ==
    /\ [](\A i \in 1 .. Len(pumps) : RLeq(pumps[i][2], R(1, 2)))
    /\ []((RequestOver /\ RequestConserved) => Delivered)
    /\ (InConservedRequest ~> RequestOver)

\* a request above 1 mL is over after four legs
C29_Witness ==
    /\ RequestOver /\ RequestConserved
    /\ RLess(One, Val(request)[3])
    /\ Len(pumps) >= 8

\* C30: in a terminal leg with waste_ml > 0 the call remove_waste(waste_ml) is
\* followed at once, before the leg returns, by the over-aspiration call
\* remove_waste(duration=1); a leg with waste_ml = 0 makes neither call.
C30_OverAspiration ==
    \A i \in 1 .. Len(pumps) :
        /\ pumps[i][1] = "remove_waste" =>
              /\ RLess(Zero, pumps[i][2])
              /\ IF i < Len(pumps)
                 THEN pumps[i + 1] = <<"remove_waste(duration)", One>>
                 ELSE stack # <<>> /\ Head(stack).at = "over"
        /\ pumps[i][1] = "remove_waste(duration)" =>
              (i > 1 /\ pumps[i - 1][1] = "remove_waste")

(***************************************************************************)
(* Properties of a tick as a whole.                                        *)
(***************************************************************************)
\* C31: in a tick the readings are taken before execute runs, the pump calls
\* are made inside execute, and the log message "triggered <event>" is published
\* after the last of them, once, when run returns the event; a tick whose run
\* has returned has published exactly one.
C31_TickOrder ==
    /\ [](origin = "tick" =>
            /\ log_triggered <= 1
            /\ executed => (latest_od # None /\ latest_growth_rate # None)
            /\ pumps # <<>> => executed
            /\ log_triggered = 1 =>
                  (executed /\ stack = <<>> /\ pc = "sleep" /\ event # "none")
            /\ (pc = "sleep" /\ executed) => log_triggered = 1)
    /\ [][(origin = "tick" /\ log_triggered' > log_triggered) =>
            /\ pc = "log" /\ stack = <<>> /\ executed
            /\ pumps' = pumps /\ event' = event]_vars
    /\ [][(log_triggered = 1 /\ log_triggered' = 1) =>
            (pumps' = pumps /\ event' = event)]_vars

\* a tick that diluted in two legs has returned, its message published
C31_Witness ==
    /\ origin = "tick" /\ pc = "sleep" /\ log_triggered = 1
    /\ event = "DilutionEvent" /\ Len(pumps) = 4

\* the main thread inside a tick: a blocking read returns once a payload is
\* there, execute and the calls it makes proceed, run publishes and returns
TickThread ==
    \/ ReadGrowthRate \/ ReadOD
    \/ SilentExecute \/ TurbidostatExecute \/ MorbidostatExecute \/ CallWithVolume
    \/ PIDTurbidostatExecute \/ PIDMorbidostatExecute
    \/ IoThread \/ PublishTriggered

SpecTick == Init /\ [][Next]_vars /\ WF_vars(TickThread)

\* the current tick is inside set_OD_measurements
Reading == origin = "tick" /\ pc \in {"read_gr", "read_od"}

\* the current tick is inside set_OD_measurements and both feeds have a payload
ReadingWithFeeds == Reading /\ gr_feed # None /\ od_feed # None

\* C32: a tick that finds a reading missing stays in set_OD_measurements: it
\* has returned no event and has not raised; it leaves only with both readings
\* set, for execute; once both feeds have delivered it comes to call execute,
\* and it calls execute once.
C32_MissingReadingWaits ==
    /\ [](Reading => (~executed /\ event = "none" /\ log_triggered = 0 /\ error_log = 0))
    /\ [][(Reading /\ pc' \notin {"read_gr", "read_od"}) =>
            (pc' = "execute" /\ latest_od' # None /\ latest_growth_rate' # None)]_vars
    /\ [][(origin = "tick" /\ executed /\ executed') => pc' # "execute"]_vars
    /\ (ReadingWithFeeds ~> executed)

\* a tick waited for od_filtered and has then called execute
C32_Witness ==
    /\ origin = "tick" /\ executed /\ ticks = 0
    /\ latest_od # None /\ latest_growth_rate # None

(***************************************************************************)
(* Properties of the entry actions of the background job.                  *)
(***************************************************************************)
\* the order of the statements of disconnected() and of init() off the main thread
EntryOrder ==
    {<<"on_disconnect", "state">>, <<"state", "publish">>, <<"publish", "pub">>,
     <<"publish", "reinit">>, <<"pub", "sub">>, <<"sub", "kill">>}

\* the activation a takes the step to b: the effect of the statement it leaves
EntryStep(a, b) ==
    /\ <<a.at, b.at>> \in EntryOrder
    /\ a.at = "state" => (state' = "disconnected" /\ b.val = "disconnected")
    /\ (a.at = "publish" /\ a.val = "disconnected") =>
          (b.at = "pub" /\ (pub = "up" => retained' = Some("disconnected")))
    /\ a.at = "pub" => pub' \notin {"up", "down"}
    /\ (a.at = "sub" /\ a.gen = reinits) => sub' \notin {"up", "down"}

\* a step of on_disconnect leaves its thread in disconnected(), at the next statement
Swallowed ==
    on_disconnects' # on_disconnects =>
        \/ /\ busD # None /\ Val(busD).at = "on_disconnect"
           /\ busD' # None /\ Val(busD').at = "state"
        \/ /\ mainD # <<>> /\ Head(mainD).at = "on_disconnect"
           /\ Len(mainD') = Len(mainD) /\ Head(mainD').at = "state"

\* C33: an activation of disconnected() runs on_disconnect, then assigns and
\* publishes state = disconnected, then stops and disconnects the pub and the
\* sub client, then signals the process to exit; whether on_disconnect returns
\* or raises, the activation goes on to the assignment.
C33_DisconnectedOrder ==
    /\ [][(busD # None /\ busD' # None /\ busD' # busD) =>
            EntryStep(Val(busD), Val(busD'))]_vars
    /\ [][(mainD # <<>> /\ Len(mainD') = Len(mainD) /\ mainD' # mainD) =>
            (EntryStep(Head(mainD), Head(mainD')) /\ Tail(mainD') = Tail(mainD))]_vars
    /\ [][Swallowed]_vars

\* disconnected() on the main thread is at its last statement, the state
\* published and both clients closed
C33_Witness ==
    /\ mainD # <<>> /\ Head(mainD).at = "kill"
    /\ state = "disconnected" /\ retained = Some("disconnected")
    /\ pub = "closed" /\ sub = "stopped" /\ on_disconnects = 1

(***************************************************************************)
(* Properties of the wrapped callback.                                     *)
(***************************************************************************)
\* C34: an exception raised by the callback is logged and does not leave the
\* wrapper for the sub client's thread, which goes on delivering messages.
C34_CallbackErrorContained ==
    /\ escapes = 0
    /\ sub_thread \in {"off", "running"}

\* C35: once a live job has entered init, the broker retains $properties, the editable
\* settings with state among them, and <setting>/$settable for every editable
\* setting, so that a client subscribing later receives them.
C35_DeclarationsRetained ==
    (Alive /\ Constructed) =>
        /\ declared.properties = Some(editable_settings)
        /\ "state" \in editable_settings
        /\ declared.settable = editable_settings
        /\ declared.kept_properties = Some(editable_settings)
        /\ declared.kept_settable = editable_settings

\* C36: after init was re-entered from a bus callback and the clients were
\* replaced, the job is served on every subscription it held before: the
\* unit's and the $broadcast set topics and the subclass's passive ones.
C36_ReInitKeepsSubscriptions ==
    (reinits > 0 /\ mpc = "idle" /\ sub = "up" /\ busD = None /\ mainD = <<>>) =>
        listening = General \cup Passive

\* C38: the execute step of a PIDTurbidostat tick decides against the target_od
\* of that moment, also after a set_attr message has changed it: the PID's
\* setpoint is target_od, and the PID is left alone exactly when latest_od is
\* at most 0.75 * target_od.
C38_TickUsesNewTarget ==
    [][(mode = "pid_turbidostat" /\ pc = "execute" /\ pc' # "execute")
          => /\ setpoint = Some(target_od)
             /\ od_to_start_diluting = Some(RMul(R(3, 4), target_od))
             /\ ((pid_log' = pid_log) <=> LowOD)]_vars


(***************************************************************************)
(* SpecBus: the main thread's periodic run and the passive listener's      *)
(* job_callback of one ControlAlgorithm, at the grain of pump-driver calls. *)
(***************************************************************************)
\* the last segment of a topic under morbidostat/<unit>/<exp>/io_controlling/+
Functions == {"set_attr", "run", "execute", "execute_io_action", "set_OD_measurements",
              "terminate"}

\* what execute asks of execute_io_action, with waste_ml at most 0.5: nothing
\* (NoEvent), media then waste, or alt media then waste
Doses == {<<>>, <<"add_media", "remove_waste">>, <<"add_alt_media", "remove_waste">>}

BusInit ==
    /\ NoIo /\ NoJob /\ NoStart /\ NoSub /\ NoSet /\ NoFleet /\ NoPump /\ NoBus

\* a thread enters method f
Enter(t, f, pos) ==
    /\ runs < MaxRuns
    /\ runs' = runs + 1
    /\ where' = [where EXCEPT ![t] = pos]
    /\ via' = [via EXCEPT ![t] = f]

\* every(duration * 60, algorithm.run): the main thread calls run when a tick is due
Every ==
    /\ where["main"] = "idle"
    /\ Enter("main", "run", "read")
    /\ UNCHANGED <<not_bus, owner, remaining, driver_calls, handled, not_found>>

\* job_callback: getattr(self, function_to_run)(message) on the listener thread;
\* an AttributeError or a TypeError of the call is caught and logged
job_callback(f) ==
    /\ where["listener"] = "idle"
    /\ handled < MaxCallbacks
    /\ handled' = handled + 1
    /\ CASE f = "run" -> Enter("listener", f, "read") /\ UNCHANGED not_found
         [] f = "execute" -> Enter("listener", f, "execute") /\ UNCHANGED not_found
         [] f = "set_attr" -> UNCHANGED <<where, via, runs, not_found>>
         [] OTHER -> not_found' = not_found + 1 /\ UNCHANGED <<where, via, runs>>
    /\ UNCHANGED <<not_bus, owner, remaining, driver_calls>>

\* run: set_OD_measurements returns with both readings
set_OD_measurements(t) ==
    /\ where[t] = "read"
    /\ where' = [where EXCEPT ![t] = "execute"]
    /\ UNCHANGED <<not_bus, via, owner, remaining, driver_calls, runs, handled, not_found>>

\* where a thread is once execute has returned: run publishes the event,
\* a bare execute returns to job_callback
Returned(t) == IF via[t] = "run" THEN "log" ELSE "idle"

\* execute: the algorithm decides, and calls execute_io_action unless NoEvent
execute(t) ==
    /\ where[t] = "execute"
    /\ \E dose \in Doses :
          /\ remaining' = [remaining EXCEPT ![t] = dose]
          /\ owner' = [owner EXCEPT ![t] = IF dose = <<>> THEN 0 ELSE runs]
          /\ where' = [where EXCEPT ![t] = IF dose = <<>> THEN Returned(t) ELSE "pump"]
    /\ via' = [via EXCEPT ![t] = IF where'[t] = "idle" THEN "none" ELSE @]
    /\ UNCHANGED <<not_bus, driver_calls, runs, handled, not_found>>

\* execute_io_action: the next pump driver of the request runs
pump(t) ==
    /\ where[t] = "pump"
    /\ driver_calls' = Append(driver_calls, <<owner[t], Head(remaining[t])>>)
    /\ remaining' = [remaining EXCEPT ![t] = Tail(@)]
    /\ where' = [where EXCEPT ![t] = IF Tail(remaining[t]) = <<>> THEN Returned(t) ELSE "pump"]
    /\ via' = [via EXCEPT ![t] = IF where'[t] = "idle" THEN "none" ELSE @]
    /\ UNCHANGED <<not_bus, owner, runs, handled, not_found>>

\* run: publish "[io_controlling]: triggered <event>." and return
publish_triggered(t) ==
    /\ where[t] = "log"
    /\ where' = [where EXCEPT ![t] = "idle"]
    /\ via' = [via EXCEPT ![t] = "none"]
    /\ UNCHANGED <<not_bus, owner, remaining, driver_calls, runs, handled, not_found>>

BusNext ==
    \/ Every
    \/ \E f \in Functions : job_callback(f)
    \/ \E t \in Threads :
          set_OD_measurements(t) \/ execute(t) \/ pump(t) \/ publish_triggered(t)

SpecBus == BusInit /\ [][BusNext]_vars

\* the pump-driver calls of one request are consecutive
Consecutive ==
    \A i, k \in 1 .. Len(driver_calls) :
        (i < k /\ driver_calls[i][1] = driver_calls[k][1]) =>
            \A j \in i .. k : driver_calls[j][1] = driver_calls[i][1]

\* C37: at most one thread is inside run or execute, and that thread is the
\* main thread; the listener thread, which handles the bus messages, never is;
\* and the pump-driver calls of two requests never interleave.
C37_TicksOnlyFromTheDriver ==
    /\ where["listener"] = "idle"
    /\ Cardinality({t \in Threads : where[t] # "idle"}) <= 1
    /\ Consecutive


\* C39: when a start-up that failed the duplicate check ends while an instance
\* of the job is ready or sleeping, the retained $state of the job stays as it was.
C39_FailedAttemptLeavesState ==
    [][\A p, q \in Procs :
          (/\ instances[p].pc = "failed" /\ instances'[p].pc # "failed"
           /\ instances[q].pc \in {"ready", "sleeping"}
           /\ instances[q].job_name = instances[p].job_name)
              => state_topic' = state_topic]_vars


\* C40: whatever signals, exit hook and writes of disconnected to state/set a
\* job process receives, on_disconnect is called at most once.
C40_DisconnectedOnce == on_disconnects <= 1

============================================================================
